---- MODULE Spec2Model ----
(***************************************************************************)
(* IntelliCommit: the commit-message route (POST), its response cache,     *)
(* the provider health table, the retrying provider tasks and the          *)
(* first-success race, with the local pattern-based fallback.              *)
(*                                                                         *)
(* Text is modelled by TLA+ strings; a character is a string of length 1.  *)
(* Time is Date.now() in milliseconds.                                     *)
(***************************************************************************)
EXTENDS Integers, Sequences, FiniteSets, TLC

\* ------------------------------------------------------------------------
\* Characters and strings
\* ------------------------------------------------------------------------

\* The printable ASCII characters in code order: 32 (space) to 95 (_), and
\* 97 (a) to 126 (~).  Code 96, the backquote, cannot be written in a string
\* here and occurs in no text of the model.
PrintableLow == " !\"#$%&'()*+,-./0123456789:;<=>?@ABCDEFGHIJKLMNOPQRSTUVWXYZ[\\]^_"
PrintableHigh == "abcdefghijklmnopqrstuvwxyz{|}~"

CharAt(s, i) == SubSeq(s, i, i)

\* String.prototype.charCodeAt for the characters the model uses.
charCodeAt(c) ==
    IF c = "\n" THEN 10
    ELSE IF c = "\t" THEN 9
    ELSE IF c = "\r" THEN 13
    ELSE IF \E k \in 1..Len(PrintableLow) : CharAt(PrintableLow, k) = c
         THEN 31 + (CHOOSE k \in 1..Len(PrintableLow) : CharAt(PrintableLow, k) = c)
    ELSE 96 + (CHOOSE k \in 1..Len(PrintableHigh) : CharAt(PrintableHigh, k) = c)

IsUpper(c) == charCodeAt(c) \in 65..90
IsLower(c) == charCodeAt(c) \in 97..122
IsDigit(c) == charCodeAt(c) \in 48..57

\* \w of a JavaScript regular expression
IsWord(c) == IsUpper(c) \/ IsLower(c) \/ IsDigit(c) \/ c = "_"

\* \s of a JavaScript regular expression (the ASCII part)
IsSpace(c) == c \in {" ", "\t", "\n", "\r"}

toLowerChar(c) == IF IsUpper(c) THEN CharAt(PrintableHigh, charCodeAt(c) - 64) ELSE c

\* String.prototype.toLowerCase, by halving so that long texts stay shallow.
RECURSIVE toLowerRange(_, _, _)
toLowerRange(s, i, j) ==
    IF i > j THEN ""
    ELSE IF i = j THEN toLowerChar(CharAt(s, i))
    ELSE LET m == (i + j) \div 2
         IN toLowerRange(s, i, m) \o toLowerRange(s, m + 1, j)

toLowerCase(s) == toLowerRange(s, 1, Len(s))

\* n copies of s
RECURSIVE Rep(_, _)
Rep(s, n) ==
    IF n = 0 THEN ""
    ELSE IF n % 2 = 1 THEN s \o Rep(s, n - 1)
    ELSE LET h == Rep(s, n \div 2) IN h \o h

MinOf(S) == CHOOSE x \in S : \A y \in S : x <= y

\* s has the literal text pat at position i
HasAt(s, i, pat) ==
    /\ i >= 1
    /\ i + Len(pat) - 1 <= Len(s)
    /\ SubSeq(s, i, i + Len(pat) - 1) = pat

\* String.prototype.includes
includes(s, pat) == \E i \in 1..(Len(s) - Len(pat) + 1) : HasAt(s, i, pat)

\* s has pat at position i, ignoring case (flag i of a regular expression)
HasAtCI(s, i, pat) ==
    /\ i >= 1
    /\ i + Len(pat) - 1 <= Len(s)
    /\ toLowerCase(SubSeq(s, i, i + Len(pat) - 1)) = toLowerCase(pat)

\* The first position at or after i whose character is outside the class
\* (Len(s) + 1 when the class runs to the end): a greedy X* from i.
SkipSpace(s, i) ==
    MinOf({j \in i..(Len(s) + 1) : j = Len(s) + 1 \/ ~IsSpace(CharAt(s, j))})

\* ------------------------------------------------------------------------
\* Sanitizer: redactSecrets and truncateDiff
\* ------------------------------------------------------------------------

REDACTED == "[REDACTED]"

\* [A-Za-z0-9_\-\.]
IsSecretChar(c) == IsUpper(c) \/ IsLower(c) \/ IsDigit(c) \/ c \in {"_", "-", "."}

SkipSecretChars(s, i) ==
    MinOf({j \in i..(Len(s) + 1) : j = Len(s) + 1 \/ ~IsSecretChar(CharAt(s, j))})

\* The {16,} of both patterns
MinSecretLen == 16

SecretKeywords == <<"api", "secret", "password", "token", "key">>

IsQuote(c) == c \in {"\"", "'"}

\* /(api|secret|password|token|key)\s*[:=]\s*["']?[A-Za-z0-9_\-\.]{16,}["']?/gi
\* tried at position i: the position after the match, 0 when it does not
\* match there.  No two keywords share a first letter and the classes of
\* adjacent parts are disjoint, so the greedy scan is the only way to match.
AssignmentMatchEnd(s, i) ==
    LET ks == {k \in 1..Len(SecretKeywords) : HasAtCI(s, i, SecretKeywords[k])}
    IN  IF ks = {} THEN 0
        ELSE LET kw == SecretKeywords[MinOf(ks)]
                 a  == SkipSpace(s, i + Len(kw))
             IN  IF a > Len(s) \/ CharAt(s, a) \notin {":", "="} THEN 0
                 ELSE LET b == SkipSpace(s, a + 1)
                          c == IF b <= Len(s) /\ IsQuote(CharAt(s, b)) THEN b + 1 ELSE b
                          d == SkipSecretChars(s, c)
                      IN  IF d - c < MinSecretLen THEN 0
                          ELSE IF d <= Len(s) /\ IsQuote(CharAt(s, d)) THEN d + 1
                          ELSE d

\* /(Bearer)\s+[A-Za-z0-9\-_.]{16,}/gi tried at position i
BearerMatchEnd(s, i) ==
    IF ~HasAtCI(s, i, "Bearer") THEN 0
    ELSE LET a == SkipSpace(s, i + 6)
             d == SkipSecretChars(s, a)
         IN  IF a = i + 6 \/ d - a < MinSecretLen THEN 0 ELSE d

\* The letters a match of either pattern can start with
MatchInitials == {"a", "A", "s", "S", "p", "P", "t", "T", "k", "K", "b", "B"}

PatternMatchEnd(pat, s, i) ==
    IF CharAt(s, i) \notin MatchInitials THEN 0
    ELSE IF pat = 1 THEN AssignmentMatchEnd(s, i)
    ELSE BearerMatchEnd(s, i)

\* String.prototype.replace with a global pattern: the leftmost match at or
\* after i is replaced, and the scan goes on after the match.
RECURSIVE replaceAllFrom(_, _, _)
replaceAllFrom(pat, s, i) ==
    LET starts == {j \in i..Len(s) : PatternMatchEnd(pat, s, j) > 0}
    IN  IF starts = {} THEN SubSeq(s, i, Len(s))
        ELSE LET j == MinOf(starts)
             IN  SubSeq(s, i, j - 1) \o REDACTED
                     \o replaceAllFrom(pat, s, PatternMatchEnd(pat, s, j))

redactSecrets(input) == replaceAllFrom(2, replaceAllFrom(1, input, 1), 1)

truncateDiff(input, maxChars) ==
    IF Len(input) <= maxChars THEN input ELSE SubSeq(input, 1, maxChars)

\* The budget POST passes to truncateDiff
MAX_DIFF_CHARS == 12000

\* A variant that truncates first and redacts second
safeDiffOf_truncateFirst(diff) == redactSecrets(truncateDiff(diff, MAX_DIFF_CHARS))

\* redacted, then truncated: the text POST calls safeDiff
safeDiffOf(diff) == truncateDiff(redactSecrets(diff), MAX_DIFF_CHARS)

\* ------------------------------------------------------------------------
\* generateCacheKey
\* ------------------------------------------------------------------------

\* A 32-bit value is kept as two 16-bit halves <<hi, lo>>.
Half == 65536

\* hash = ((hash << 5) - hash) + char; hash = hash & hash
\* that is 31 * hash + char, wrapped to 32 bits.
hashStep(h, code) ==
    LET lo == 31 * h[2] + code
        hi == 31 * h[1] + (lo \div Half)
    IN  <<hi % Half, lo % Half>>

\* The loop over the characters i..j, started with h.  The range is halved to
\* keep the evaluation shallow; the test on the left half's value makes it a
\* value before the right half starts from it.
RECURSIVE hashRange(_, _, _, _)
hashRange(h, s, i, j) ==
    IF i > j THEN h
    ELSE IF i = j THEN hashStep(h, charCodeAt(CharAt(s, i)))
    ELSE LET m    == (i + j) \div 2
             left == hashRange(h, s, i, m)
         IN  IF left[1] >= 0 THEN hashRange(left, s, m + 1, j) ELSE left

\* Math.abs of the signed 32-bit value held in <<hi, lo>>: a value with the
\* top bit set is negative and its absolute value is the two's complement.
absInt32(h) ==
    IF h[1] < Half \div 2 THEN h
    ELSE IF h[2] = 0 THEN <<(Half - h[1]) % Half, 0>>
    ELSE <<Half - 1 - h[1], Half - h[2]>>

\* `commit_${Math.abs(hash)}`: the key is the number after the prefix, whose
\* decimal text is one-to-one with the pair of halves.
generateCacheKey(diff) == absInt32(hashRange(<<0, 0>>, diff, 1, Len(diff)))

\* ------------------------------------------------------------------------
\* analyzeDiff
\* ------------------------------------------------------------------------

\* The first position at or after i where the class P ends, by increasing j.
FirstNonWord(s, i) ==
    CHOOSE j \in i..(Len(s) + 1) :
        /\ j = Len(s) + 1 \/ ~IsWord(CharAt(s, j))
        /\ \A k \in i..(j - 1) : IsWord(CharAt(s, k))

FirstSpaceOrEnd(s, i) ==
    CHOOSE j \in i..(Len(s) + 1) :
        /\ j = Len(s) + 1 \/ IsSpace(CharAt(s, j))
        /\ \A k \in i..(j - 1) : ~IsSpace(CharAt(s, k))

FirstNonSpace(s, i) ==
    CHOOSE j \in i..(Len(s) + 1) :
        /\ j = Len(s) + 1 \/ ~IsSpace(CharAt(s, j))
        /\ \A k \in i..(j - 1) : IsSpace(CharAt(s, k))

LineEnd(s, i) ==
    CHOOSE j \in i..(Len(s) + 1) :
        /\ j = Len(s) + 1 \/ CharAt(s, j) = "\n"
        /\ \A k \in i..(j - 1) : CharAt(s, k) # "\n"

\* The positions where a line of s.split('\n') starts.  The empty text has
\* one (empty) line, which no test on a first character can hold of.
LineStarts(s) == {i \in 1..Len(s) : i = 1 \/ CharAt(s, i - 1) = "\n"}

\* The starts of the lines for which line.startsWith(c) holds
LinesStartingWith(s, c) == {i \in LineStarts(s) : CharAt(s, i) = c}

\* line.substring(1) of the line that starts at i
LineRest(s, i) == SubSeq(s, i + 1, LineEnd(s, i) - 1)

\* The parts of the regular expressions of analyzeDiff
Lit(t) == [kind |-> "lit", text |-> t]
SpPlus == [kind |-> "s+", text |-> ""]
SpStar == [kind |-> "s*", text |-> ""]
WPlus  == [kind |-> "w+", text |-> ""]

\* The parts match s from position i on; lower-case s and lower-case
\* literals stand for flag i.  X+ and X* are tried at every length, which is
\* what backtracking finds.
RECURSIVE MatchesAt(_, _, _)
MatchesAt(s, i, parts) ==
    IF parts = <<>> THEN TRUE
    ELSE LET p == Head(parts)
         IN  IF p.kind = "lit"
                 THEN HasAt(s, i, p.text) /\ MatchesAt(s, i + Len(p.text), Tail(parts))
             ELSE IF p.kind = "s+"
                 THEN \E e \in (i + 1)..FirstNonSpace(s, i) : MatchesAt(s, e, Tail(parts))
             ELSE IF p.kind = "s*"
                 THEN \E e \in i..FirstNonSpace(s, i) : MatchesAt(s, e, Tail(parts))
             ELSE \E e \in (i + 1)..FirstNonWord(s, i) : MatchesAt(s, e, Tail(parts))

L(t) == <<Lit(t)>>

\* const patterns: Record<string, RegExp>, in the order of its keys
patternKeys == <<"bugFix", "security", "performance", "feature", "refactor",
                 "styling", "test", "docs", "config", "database", "api">>

patterns ==
    [bugFix |-> <<L(".trim()"), L(".toLowerCase()"), L(".toUpperCase()"), L("null"),
                  L("undefined"), L("error"), L("exception"), L("catch"), L("try"),
                  L("fix"), L("bug")>>,
     security |-> <<L("password"), L("auth"), L("token"), L("secret"), L("key"),
                    L("encrypt"), L("decrypt"), L("hash"), L("salt"), L("jwt"),
                    L("oauth")>>,
     performance |-> <<L("optimize"), L("performance"), L("speed"), L("memory"),
                       L("cache"), L("lazy"), L("memo"), L("debounce"), L("throttle")>>,
     feature |-> <<<<Lit("const"), SpPlus, WPlus, SpStar, Lit("=")>>,
                   <<Lit("function"), SpPlus, WPlus>>,
                   <<Lit("export"), SpPlus, Lit("default")>>,
                   L("component"), L("interface"),
                   <<Lit("class"), SpPlus, WPlus>>,
                   <<Lit("new"), SpPlus, WPlus>>,
                   L("add"), L("create"), L("implement")>>,
     refactor |-> <<L("refactor"), L("clean"), L("optimize"), L("import"),
                    L("require"), L("restructure"), L("reorganize")>>,
     styling |-> <<L("style"), L("format"), L("lint"), L("css"), L("className"),
                   L("class="), L("color"), L("font"), L("margin"), L("padding")>>,
     test |-> <<L("test"), L("spec"), L(".test."), L(".spec."), L("describe"),
                L("it("), L("expect"), L("assert")>>,
     docs |-> <<L("doc"), L("readme"), L("comment"), L("//"), L("/*"), L("md"),
                L(".md")>>,
     config |-> <<L("config"), L("package.json"), L("dependencies"), L("webpack"),
                  L("babel"), L("eslint"), L("tsconfig")>>,
     database |-> <<L("sql"), L("query"), L("database"), L("db"), L("migration"),
                    L("schema"), L("table"), L("index"), L("select"), L("insert"),
                    L("update"), L("delete")>>,
     api |-> <<L("api"), L("endpoint"), L("route"), L("controller"), L("service"),
               L("fetch"), L("axios"), L("http")>>]

LowerParts(parts) ==
    [k \in 1..Len(parts) |-> [kind |-> parts[k].kind, text |-> toLowerCase(parts[k].text)]]

\* patterns[type].test(content): some alternative matches somewhere
patternTest(type, content) ==
    LET lc == toLowerCase(content)
    IN  \E a \in 1..Len(patterns[type]) :
            LET parts == LowerParts(patterns[type][a])
            IN  \E i \in 1..(Len(lc) + 1) : MatchesAt(lc, i, parts)

\* A variant that goes through the patterns in the order they are declared
priorityOrder_asDeclared == patternKeys

priorityOrder == <<"feature", "bugFix", "security", "performance", "refactor",
                   "styling", "test", "docs", "config", "database", "api">>

\* for (const type of priorityOrder) { if (...test(content)) { ...; break } }
firstMatch(content) ==
    LET hits == {k \in 1..Len(priorityOrder) : patternTest(priorityOrder[k], content)}
    IN  IF hits = {} THEN 0 ELSE MinOf(hits)

\* diff.match(/diff --git a\/([^\s]+)/): the start of the leftmost match, 0
\* when there is none
GitHeader == "diff --git a/"

fileMatchAt(diff) ==
    LET at == {i \in 1..Len(diff) :
                  /\ HasAt(diff, i, GitHeader)
                  /\ i + Len(GitHeader) <= Len(diff)
                  /\ ~IsSpace(CharAt(diff, i + Len(GitHeader)))}
    IN  IF at = {} THEN 0 ELSE MinOf(at)

\* (diff.match(/diff --git/g) || []).length
fileCountOf(diff) == Cardinality({i \in 1..Len(diff) : HasAt(diff, i, "diff --git")})

\* fileName.split('.').pop() || ''
extensionOf(fileName) ==
    LET dots == {i \in 1..Len(fileName) : CharAt(fileName, i) = "."}
    IN  IF dots = {} THEN fileName
        ELSE SubSeq(fileName, (CHOOSE i \in dots : \A j \in dots : j <= i) + 1,
                    Len(fileName))

\* confidence is kept in tenths: 5 is 0.5, 9 is 0.9
MinTenths(a, b) == IF a <= b THEN a ELSE b

\* A variant whose thresholds belong to the higher class
analyzeDiff_inclusive(diff) ==
    LET addedLines   == Cardinality(LinesStartingWith(diff, "+"))
        removedLines == Cardinality(LinesStartingWith(diff, "-"))
        totalChanges == addedLines + removedLines
        m            == fileMatchAt(diff)
        fileName     == IF m = 0 THEN "unknown"
                        ELSE SubSeq(diff, m + Len(GitHeader),
                                    FirstSpaceOrEnd(diff, m + Len(GitHeader)) - 1)
        content      == toLowerCase(diff)
        hit          == firstMatch(content)
        fileCount    == fileCountOf(diff)
        byChanges    == IF totalChanges >= 50 THEN "high"
                        ELSE IF totalChanges >= 20 THEN "medium"
                        ELSE "low"
    IN  [fileName      |-> fileName,
         fileExtension |-> extensionOf(fileName),
         addedLines    |-> addedLines,
         removedLines  |-> removedLines,
         totalChanges  |-> totalChanges,
         fileCount     |-> fileCount,
         changeType    |-> IF hit = 0 THEN "chore" ELSE priorityOrder[hit],
         confidence    |-> IF hit = 0 THEN 5 ELSE MinTenths(9, 5 + 3),
         complexity    |-> IF fileCount > 1 THEN "high" ELSE byChanges,
         patterns      |-> SelectSeq(patternKeys, LAMBDA t : patternTest(t, content))]

analyzeDiff(diff) ==
    LET addedLines   == Cardinality(LinesStartingWith(diff, "+"))
        removedLines == Cardinality(LinesStartingWith(diff, "-"))
        totalChanges == addedLines + removedLines
        m            == fileMatchAt(diff)
        fileName     == IF m = 0 THEN "unknown"
                        ELSE SubSeq(diff, m + Len(GitHeader),
                                    FirstSpaceOrEnd(diff, m + Len(GitHeader)) - 1)
        content      == toLowerCase(diff)
        hit          == firstMatch(content)
        fileCount    == fileCountOf(diff)
        byChanges    == IF totalChanges > 50 THEN "high"
                        ELSE IF totalChanges > 20 THEN "medium"
                        ELSE "low"
    IN  [fileName      |-> fileName,
         fileExtension |-> extensionOf(fileName),
         addedLines    |-> addedLines,
         removedLines  |-> removedLines,
         totalChanges  |-> totalChanges,
         fileCount     |-> fileCount,
         changeType    |-> IF hit = 0 THEN "chore" ELSE priorityOrder[hit],
         confidence    |-> IF hit = 0 THEN 5 ELSE MinTenths(9, 5 + 3),
         complexity    |-> IF fileCount > 1 THEN "high" ELSE byChanges,
         patterns      |-> SelectSeq(patternKeys, LAMBDA t : patternTest(t, content))]

\* ------------------------------------------------------------------------
\* The local pattern-based engine
\* ------------------------------------------------------------------------

toUpperChar(c) == IF IsLower(c) THEN CharAt(PrintableLow, charCodeAt(c) - 32 - 31) ELSE c

EndsWith(s, suffix) == HasAt(s, Len(s) - Len(suffix) + 1, suffix)

\* fileName.split('/').pop()?.replace(/\.(js|jsx|ts|tsx)$/, '') || 'component',
\* with its first character in upper case
extractComponentName(fileName) ==
    LET slashes == {i \in 1..Len(fileName) : CharAt(fileName, i) = "/"}
        base    == IF slashes = {} THEN fileName
                   ELSE SubSeq(fileName,
                               (CHOOSE i \in slashes : \A j \in slashes : j <= i) + 1,
                               Len(fileName))
        exts    == {e \in {".js", ".jsx", ".ts", ".tsx"} : EndsWith(base, e)}
        cut     == IF exts = {} THEN base
                   ELSE SubSeq(base, 1, Len(base) - Len(CHOOSE e \in exts : TRUE))
        name    == IF cut = "" THEN "component" ELSE cut
    IN  toUpperChar(CharAt(name, 1)) \o SubSeq(name, 2, Len(name))

\* analyzeCommitContext: the added and removed lines are kept by the
\* positions where they start in diff
analyzeCommitContext(diff, analysis) ==
    LET added   == LinesStartingWith(diff, "+")
        removed == LinesStartingWith(diff, "-")
    IN  [addedLines     |-> added,
         removedLines   |-> removed,
         fileType       |-> analysis.fileExtension,
         complexity     |-> analysis.complexity,
         patterns       |-> analysis.patterns,
         isNewFile      |-> removed = {} /\ Cardinality(added) > 5,
         isDeletion     |-> added = {} /\ Cardinality(removed) > 0,
         isModification |-> Cardinality(added) > 0 /\ Cardinality(removed) > 0]

generateFeatureCommit(diff, fileName, context) ==
    LET isComponent ==
            \/ includes(fileName, "component")
            \/ \E i \in context.addedLines :
                   LET line == LineRest(diff, i)
                   IN  includes(line, "const ") /\ includes(line, "=") /\ includes(line, "{")
    IN  IF isComponent
        THEN "feat: implement " \o extractComponentName(fileName) \o " component\n\n"
             \o "- Add reusable component with props support\n"
             \o "- Implement interactive functionality\n"
             \o "- Enhance user experience with new features"
        ELSE "feat: add new functionality to " \o fileName \o "\n\n"
             \o "- Implement new feature as requested\n"
             \o "- Add necessary components and logic\n"
             \o "- Enhance user experience"

generateBugFixCommit(diff, fileName, context) ==
    LET hasValidation ==
            \E i \in context.addedLines :
                LET line == LineRest(diff, i)
                IN  \/ includes(line, ".trim()")
                    \/ includes(line, "validation")
                    \/ includes(line, "check")
    IN  IF hasValidation
        THEN "fix: improve validation in " \o fileName \o "\n\n"
             \o "- Add input sanitization to prevent edge cases\n"
             \o "- Handle whitespace and formatting issues\n"
             \o "- Improve data validation reliability"
        ELSE "fix: resolve issue in " \o fileName \o "\n\n"
             \o "- Address the problem identified in the code\n"
             \o "- Improve error handling and validation\n"
             \o "- Ensure proper functionality"

generateRefactorCommit(fileName) ==
    "refactor: improve code structure in " \o fileName \o "\n\n"
    \o "- Clean up code organization\n"
    \o "- Optimize performance and readability\n"
    \o "- Maintain existing functionality"

generateStylingCommit ==
    "style: update formatting and styling\n\n"
    \o "- Apply consistent code formatting\n"
    \o "- Fix linting issues\n"
    \o "- Improve code readability"

generateTestCommit(fileName) ==
    "test: add test coverage for " \o fileName \o "\n\n"
    \o "- Add comprehensive test cases\n"
    \o "- Ensure proper test coverage\n"
    \o "- Validate functionality"

generateDocsCommit ==
    "docs: update documentation\n\n"
    \o "- Improve code documentation\n"
    \o "- Add helpful comments and examples\n"
    \o "- Update README and guides"

generateConfigCommit ==
    "chore: update configuration and dependencies\n\n"
    \o "- Update package dependencies\n"
    \o "- Modify configuration settings\n"
    \o "- Maintain project setup"

generateDatabaseCommit ==
    "db: update database schema or queries\n\n"
    \o "- Modify database structure or queries\n"
    \o "- Improve data handling and storage\n"
    \o "- Optimize database performance"

generateApiCommit ==
    "api: update API endpoints or services\n\n"
    \o "- Modify API functionality\n"
    \o "- Improve request/response handling\n"
    \o "- Enhance service integration"

generateSecurityCommit(fileName) ==
    "security: enhance security in " \o fileName \o "\n\n"
    \o "- Implement security improvements\n"
    \o "- Address potential vulnerabilities\n"
    \o "- Strengthen authentication/authorization"

generatePerformanceCommit(fileName) ==
    "perf: optimize performance in " \o fileName \o "\n\n"
    \o "- Improve code efficiency and speed\n"
    \o "- Reduce memory usage and processing time\n"
    \o "- Enhance overall application performance"

generateChoreCommit(fileName) ==
    "chore: update " \o fileName \o "\n\n"
    \o "- Make necessary changes to improve functionality\n"
    \o "- Update code as required\n"
    \o "- Maintain project standards"

\* A variant that uses the chore template whatever the change type
generateLocalPatternBasedCommit_choreOnly(diff, analysis) ==
    generateChoreCommit(analysis.fileName)

\* templates[changeType] || templates.chore
generateLocalPatternBasedCommit(diff, analysis) ==
    LET fileName   == analysis.fileName
        changeType == analysis.changeType
        context    == analyzeCommitContext(diff, analysis)
    IN  IF changeType = "bugFix" THEN generateBugFixCommit(diff, fileName, context)
        ELSE IF changeType = "security" THEN generateSecurityCommit(fileName)
        ELSE IF changeType = "performance" THEN generatePerformanceCommit(fileName)
        ELSE IF changeType = "feature" THEN generateFeatureCommit(diff, fileName, context)
        ELSE IF changeType = "refactor" THEN generateRefactorCommit(fileName)
        ELSE IF changeType = "styling" THEN generateStylingCommit
        ELSE IF changeType = "test" THEN generateTestCommit(fileName)
        ELSE IF changeType = "docs" THEN generateDocsCommit
        ELSE IF changeType = "config" THEN generateConfigCommit
        ELSE IF changeType = "database" THEN generateDatabaseCommit
        ELSE IF changeType = "api" THEN generateApiCommit
        ELSE generateChoreCommit(fileName)

\* ------------------------------------------------------------------------
\* Configuration and bounds
\* ------------------------------------------------------------------------

CACHE_TTL == 5 * 60 * 1000
MAX_RETRIES == 2
CIRCUIT_BREAKER_THRESHOLD == 3

\* The providers executeIntelligentAIStrategy can launch, in its order
RaceProviders == <<"aiml", "gemini", "huggingface", "freehf", "openai">>

\* process.env names tested before a launch; freehf needs none
Credentials == {"AIML_API_KEY", "GEMINI_API_KEY", "HUGGING_FACE_TOKEN", "OPENAI_API_KEY"}

\* At most this many credentials are set in the environment
MaxCredentials == 1

\* At most this many provider tasks are launched in one run
MaxTasks == 2

\* At most this many provider tasks run at once
MaxRunning == 2

\* At most this many advances of the clock in one run
MaxTicks == 2

\* A variant whose delay grows by a second with each attempt
BackoffMs_linear(attempt) == attempt * 1000

\* Math.pow(2, attempt) * 1000
BackoffMs(attempt) == (2 ^ attempt) * 1000

\* The advances of the clock: the backoff after a first failure, and what
\* then remains of the lifetime of a cache entry
TickSteps == {BackoffMs(1), CACHE_TTL - BackoffMs(1)}

\* The request bodies sent to POST.  kind "unreadable" is a body req.json()
\* rejects, "absent" a JSON object without a diff field, "number" one whose
\* diff is a number other than 0.
DiffSecretA == "diff --git a/src/config.ts b/src/config.ts\n+const OPENAI_API_KEY=sk-aaaaaaaaaaaaaaaaaaaaaaaa\n"
DiffSecretB == "diff --git a/src/config.ts b/src/config.ts\n+const OPENAI_API_KEY=sk-bbbbbbbbbbbbbbbbbbbbbbbb\n"
DiffPlain == "diff --git a/lib/util.js b/lib/util.js\n-  return x\n+  return x.trim()\n"

\* Two texts that generateCacheKey gives the same key: 65 * 31 + 97 and
\* 66 * 31 + 66 are both 2112
DiffAa == "Aa"
DiffBB == "BB"

Bodies ==
    <<[kind |-> "unreadable", diff |-> ""],
      [kind |-> "absent", diff |-> ""],
      [kind |-> "string", diff |-> ""],
      [kind |-> "string", diff |-> DiffSecretA],
      [kind |-> "string", diff |-> DiffSecretB],
      [kind |-> "string", diff |-> DiffPlain],
      [kind |-> "string", diff |-> DiffAa],
      [kind |-> "string", diff |-> DiffBB],
      [kind |-> "number", diff |-> ""]>>

BodyIds == 1..Len(Bodies)

\* The bodies with the two texts of one key, and the others
CollidingIds == {b \in BodyIds : Bodies[b].diff \in {DiffAa, DiffBB}}
UsualIds == BodyIds \ CollidingIds

\* What one fetch of a provider can come to: a 2xx answer carrying a text
\* (empty, of at most 10 characters, or longer), a non-2xx answer or a network
\* error, or the timer of fetchWithTimeout winning.  The texts stand for what
\* is left after the adapter's trim and clean-up.
ProviderTexts == {"", "fix: typo", "fix: trim the input before validation"}

\* The statuses a provider answers with when it does not answer 2xx: 429 is
\* its signal of rate limiting
ErrorStatuses == {"429", "500"}

\* What a fetch can come to: an answer 2xx with a text, an answer with
\* another status, or no answer before the timer
FetchOutcomes ==
    [kind : {"ok"}, status : {"200"}, text : ProviderTexts]
        \cup [kind : {"rejected"}, status : ErrorStatuses, text : {""}]
        \cup {[kind |-> "timeout", status |-> "", text |-> ""]}

\* The models tryHuggingFaceModels and tryFreeHuggingFace go through
HUGGING_FACE_MODEL_ORDER == <<"Qwen/Qwen2.5-7B-Instruct", "microsoft/DialoGPT-medium", "gpt2">>
FREE_HF_MODELS == <<"microsoft/DialoGPT-medium", "gpt2", "distilgpt2">>

\* ------------------------------------------------------------------------
\* Provider adapters.  A call's result is [ok, text, error]: ok is FALSE when
\* the call throws, and error is then the message of what it throws.
\* ------------------------------------------------------------------------

Returned(text) == [ok |-> TRUE, text |-> text, error |-> ""]
Thrown(error) == [ok |-> FALSE, text |-> "", error |-> error]

TimeoutError == "Request timeout"

\* fetchWithTimeout: the timer winning rejects, anything else is the fetch
fetchWithTimeout(o) == IF o.kind = "timeout" THEN "reject" ELSE o.kind

\* What a fetch that does not answer 2xx makes the adapter throw
fetchError(o, apiError) ==
    IF o.kind = "timeout" THEN TimeoutError ELSE apiError \o ": " \o o.status

\* if (!response.ok) throw ...; return content?.trim() || ''
tryOpenAI(o) ==
    IF fetchWithTimeout(o) = "ok" THEN Returned(o.text)
    ELSE Thrown(fetchError(o, "OpenAI API error"))

tryGemini(o) ==
    IF fetchWithTimeout(o) = "ok" THEN Returned(o.text)
    ELSE Thrown(fetchError(o, "Gemini API error"))

\* if (!content) throw new Error('No content in AIML response')
tryAIML(o) ==
    IF fetchWithTimeout(o) # "ok" THEN Thrown(fetchError(o, "AIML API error"))
    ELSE IF o.text = "" THEN Thrown("No content in AIML response")
    ELSE Returned(o.text)

\* for (const model of ...) { ...; if (text) return text }
\* throw lastError || new Error('All Hugging Face models failed')
tryHuggingFaceModels(os) ==
    LET n    == Len(HUGGING_FACE_MODEL_ORDER)
        good == {k \in 1..n : fetchWithTimeout(os[k]) = "ok" /\ os[k].text # ""}
        bad  == {k \in 1..n : fetchWithTimeout(os[k]) # "ok"}
    IN  IF good # {} THEN Returned(os[MinOf(good)].text)
        ELSE IF bad = {} THEN Thrown("All Hugging Face models failed")
        ELSE Thrown(fetchError(os[CHOOSE k \in bad : \A j \in bad : j <= k], "HF error"))

\* if (response.ok) { ... if (cleaned.length > 10) return cleaned }
\* throw new Error('All free models failed')
tryFreeHuggingFace(os) ==
    LET good == {k \in 1..Len(FREE_HF_MODELS) :
                    fetchWithTimeout(os[k]) = "ok" /\ Len(os[k].text) > 10}
    IN  IF good = {} THEN Thrown("All free models failed")
        ELSE Returned(os[MinOf(good)].text)

\* The function each launch hands to executeWithRetry
AdapterOf ==
    [aiml |-> "tryAIML", gemini |-> "tryGemini", huggingface |-> "tryHuggingFaceModels",
     freehf |-> "tryFreeHuggingFace", openai |-> "tryOpenAI"]

FetchCount(fn) ==
    IF fn = "tryHuggingFaceModels" THEN Len(HUGGING_FACE_MODEL_ORDER)
    ELSE IF fn = "tryFreeHuggingFace" THEN Len(FREE_HF_MODELS)
    ELSE 1

\* One call of the adapter fn on the outcomes os of its fetches (the
\* single-fetch adapters read os[1])
callAdapter(fn, os) ==
    IF fn = "tryAIML" THEN tryAIML(os[1])
    ELSE IF fn = "tryGemini" THEN tryGemini(os[1])
    ELSE IF fn = "tryOpenAI" THEN tryOpenAI(os[1])
    ELSE IF fn = "tryHuggingFaceModels" THEN tryHuggingFaceModels(os)
    ELSE tryFreeHuggingFace(os)

\* Every result a call of the adapter can have, over all outcomes of its
\* fetches
CallResults ==
    [fn \in {"tryAIML", "tryGemini", "tryOpenAI", "tryHuggingFaceModels",
             "tryFreeHuggingFace"} |->
        {callAdapter(fn, os) : os \in [1..FetchCount(fn) -> FetchOutcomes]}]

\* diff.substring(0, 500)
substring0(diff, n) == IF Len(diff) <= n THEN diff ELSE SubSeq(diff, 1, n)

\* What the body of the adapter's request is built from: the prompt's
\* variable parts
requestBody(fn, diff, analysis) ==
    IF fn \in {"tryAIML", "tryGemini", "tryOpenAI"}
        THEN [file |-> analysis.fileName, changeType |-> analysis.changeType,
              complexity |-> analysis.complexity, diff |-> diff]
    ELSE IF fn = "tryHuggingFaceModels"
        THEN [file |-> "", changeType |-> "", complexity |-> "", diff |-> diff]
    ELSE [file |-> "", changeType |-> "", complexity |-> "",
          diff |-> substring0(diff, 500)]

\* ------------------------------------------------------------------------
\* The request bodies through the pure functions
\* ------------------------------------------------------------------------

\* A variant that only tests for the field
diffMissing_absentOnly(body) == body.kind = "absent"

\* if (!diff): the field is missing or the empty string
diffMissing(body) == body.kind = "absent" \/ (body.kind = "string" /\ body.diff = "")

\* A variant that files every diff under one key
cacheKeyOf_oneKey(body) == generateCacheKey("")

\* const cacheKey = generateCacheKey(diff): a number has no length, the loop
\* is not entered and the key is that of the empty text
cacheKeyOf(body) ==
    IF body.kind = "number" THEN generateCacheKey("") ELSE generateCacheKey(body.diff)

\* A variant that hands over the diff as it came
strategyInput_raw(body) ==
    [diff |-> body.diff, analysis |-> analyzeDiff(body.diff)]

\* const redacted = redactSecrets(diff); const safeDiff = truncateDiff(redacted, 12000)
\* const analysis = analyzeDiff(safeDiff)
\* ... executeIntelligentAIStrategy(safeDiff, analysis)
strategyInput(body) ==
    [diff |-> safeDiffOf(body.diff), analysis |-> analyzeDiff(safeDiffOf(body.diff))]

\* Tables over the request bodies
KeyTable == [b \in BodyIds |-> cacheKeyOf(Bodies[b])]
InputTable == [b \in BodyIds |-> strategyInput(Bodies[b])]
LocalTable ==
    [b \in BodyIds |->
        generateLocalPatternBasedCommit(InputTable[b].diff, InputTable[b].analysis)]

\* The tables together: computed once, read by the actions
Tables ==
    [key |-> KeyTable, input |-> InputTable, local |-> LocalTable, results |-> CallResults]

\* ------------------------------------------------------------------------
\* State
\* ------------------------------------------------------------------------

VARIABLES
    now,                    \* Date.now()
    ticks,                  \* how often the clock has advanced
    env,                    \* the credentials set in process.env
    tables,                 \* what the pure functions give on the request bodies
    responseCache,          \* Map: cache key -> {response, timestamp, analysis}
    providerHealth,         \* Record<string, ProviderHealth>
    providerCooldownUntil,  \* Record<string, number>; 0 stands for no entry
    req,                    \* the requests with a race or tasks alive, oldest first
    tasks,                  \* for each of them, per provider: the executeWithRetry run
    budget,                 \* how many provider tasks may still be launched
    returned,               \* what POST returned in the step just taken, if it did
    sent,                   \* the provider requests sent in the step just taken
    lastStore,              \* history: per cache key, the last write to it
    failureRun,             \* history: failure reports since the last success
    settled,                \* the adapter call that settled in the step just taken
    probe                   \* the pure function applied in the step just taken

vars == <<now, ticks, env, tables, responseCache, providerHealth, providerCooldownUntil,
          req, tasks, budget, returned, sent, lastStore, failureRun, settled, probe>>

ProviderSet == {RaceProviders[k] : k \in 1..Len(RaceProviders)}

\* successRate is kept in hundredths: 95 is 0.95.  avgResponseTime and
\* lastSuccess are written by updateProviderHealth and read nowhere; they are
\* left out.
Health(name, rate, priority) ==
    [name |-> name, isHealthy |-> TRUE, successRate |-> rate,
     consecutiveFailures |-> 0, priority |-> priority]

InitialHealth ==
    [aiml        |-> Health("AIML", 95, 1),
     gemini      |-> Health("Gemini", 90, 2),
     huggingface |-> Health("HuggingFace", 85, 3),
     freehf      |-> Health("FreeHF", 70, 4),
     openai      |-> Health("OpenAI", 95, 5),
     local       |-> Health("LocalAI", 100, 6)]

NoValue == [provider |-> "", result |-> ""]
NoTask == [state |-> "none", attempt |-> 0, wakeAt |-> 0, value |-> NoValue]
NoTasks == [p \in ProviderSet |-> NoTask]

\* What produced a message: the function called and the text it gave
NoSource == [fn |-> "", provider |-> "", text |-> ""]

\* returned.status = 0: POST did not return in this step.  Beside the
\* response, the record keeps what the request met: its body; whether it
\* looked into the cache and the age of the entry under its key when it did
\* (-1: none); whether a request with the same diff had stored its result less
\* than CACHE_TTL before it started, and the message stored; what produced its
\* message; the states of the tasks of its race when it returned; and the
\* entry its store replaced (timestamp -1: none).
NotReturned ==
    [status |-> 0, response |-> <<>>, body |-> 0, looked |-> FALSE, entryAge |-> -1,
     fresh |-> FALSE, freshMessage |-> "", source |-> NoSource,
     race |-> [p \in ProviderSet |-> "none"],
     replaced |-> [response |-> "", timestamp |-> -1]]

\* settled.provider = "": no adapter call settled in this step.  Else the
\* record keeps the provider and the attempt of the call, its result, what
\* executeWithRetry did with it (return, giveUp, backoff), the error it
\* rethrew, and the calls of updateProviderHealth made in the step, in order,
\* each with the function that made it, the provider's health entry as it
\* was before them, and whether the request of the run was still awaiting
\* its race.
NotSettled ==
    [provider |-> "", attempt |-> 0, result |-> Returned(""), step |-> "",
     rethrown |-> "", reports |-> <<>>, before |-> Health("", 0, 0),
     racing |-> FALSE]

\* probe.fn = "": no pure function was applied on its own in this step
NoProbe == [fn |-> "", input |-> {}, diff |-> "", out |-> <<>>]

Init ==
    /\ now = 0
    /\ ticks = 0
    /\ env \in {e \in SUBSET Credentials : Cardinality(e) <= MaxCredentials}
    /\ tables = Tables
    /\ responseCache = <<>>
    /\ providerHealth = InitialHealth
    /\ providerCooldownUntil = [p \in ProviderSet |-> 0]
    /\ req = <<>>
    /\ tasks = <<>>
    /\ budget = MaxTasks
    /\ returned = NotReturned
    /\ sent = {}
    /\ lastStore = <<>>
    /\ failureRun = [p \in ProviderSet |-> 0]
    /\ settled = NotSettled
    /\ probe = NoProbe

\* ------------------------------------------------------------------------
\* Health tracker, cache, race
\* ------------------------------------------------------------------------

MinInt(a, b) == IF a <= b THEN a ELSE b
MaxInt(a, b) == IF a >= b THEN a ELSE b

\* A variant that loses a failure report made after another: the counter
\* stays where the first left it
updateProviderHealth_lostUpdate(h, providerName, success) ==
    IF providerName \notin DOMAIN h THEN h
    ELSE LET health == h[providerName]
         IN  IF success
             THEN [h EXCEPT ![providerName] =
                      [health EXCEPT !.consecutiveFailures = 0,
                                     !.isHealthy = TRUE,
                                     !.successRate = MinInt(100, health.successRate + 1)]]
             ELSE LET n == IF health.consecutiveFailures >= 1
                           THEN health.consecutiveFailures
                           ELSE 1
                  IN  [h EXCEPT ![providerName] =
                          [health EXCEPT !.consecutiveFailures = n,
                                         !.successRate = MaxInt(0, health.successRate - 5),
                                         !.isHealthy = IF n >= CIRCUIT_BREAKER_THRESHOLD
                                                       THEN FALSE
                                                       ELSE health.isHealthy]]

\* A variant whose success report resets the counter and leaves isHealthy
updateProviderHealth_noReopen(h, providerName, success) ==
    IF providerName \notin DOMAIN h THEN h
    ELSE LET health == h[providerName]
         IN  IF success
             THEN [h EXCEPT ![providerName] =
                      [health EXCEPT !.consecutiveFailures = 0,
                                     !.successRate = MinInt(100, health.successRate + 1)]]
             ELSE LET n == health.consecutiveFailures + 1
                  IN  [h EXCEPT ![providerName] =
                          [health EXCEPT !.consecutiveFailures = n,
                                         !.successRate = MaxInt(0, health.successRate - 5),
                                         !.isHealthy = IF n >= CIRCUIT_BREAKER_THRESHOLD
                                                       THEN FALSE
                                                       ELSE health.isHealthy]]

\* A variant that moves successRate without the bounds of Math.min and
\* Math.max
updateProviderHealth_unclamped(h, providerName, success) ==
    IF providerName \notin DOMAIN h THEN h
    ELSE LET health == h[providerName]
         IN  IF success
             THEN [h EXCEPT ![providerName] =
                      [health EXCEPT !.consecutiveFailures = 0,
                                     !.isHealthy = TRUE,
                                     !.successRate = health.successRate + 1]]
             ELSE LET n == health.consecutiveFailures + 1
                  IN  [h EXCEPT ![providerName] =
                          [health EXCEPT !.consecutiveFailures = n,
                                         !.successRate = health.successRate - 5,
                                         !.isHealthy = IF n >= CIRCUIT_BREAKER_THRESHOLD
                                                       THEN FALSE
                                                       ELSE health.isHealthy]]

\* A variant that trips the circuit one failure late
updateProviderHealth_tripsLate(h, providerName, success) ==
    IF providerName \notin DOMAIN h THEN h
    ELSE LET health == h[providerName]
         IN  IF success
             THEN [h EXCEPT ![providerName] =
                      [health EXCEPT !.consecutiveFailures = 0,
                                     !.isHealthy = TRUE,
                                     !.successRate = MinInt(100, health.successRate + 1)]]
             ELSE LET n == health.consecutiveFailures + 1
                  IN  [h EXCEPT ![providerName] =
                          [health EXCEPT !.consecutiveFailures = n,
                                         !.successRate = MaxInt(0, health.successRate - 5),
                                         !.isHealthy = IF n > CIRCUIT_BREAKER_THRESHOLD
                                                       THEN FALSE
                                                       ELSE health.isHealthy]]

updateProviderHealth(h, providerName, success) ==
    IF providerName \notin DOMAIN h THEN h
    ELSE LET health == h[providerName]
         IN  IF success
             THEN [h EXCEPT ![providerName] =
                      [health EXCEPT !.consecutiveFailures = 0,
                                     !.isHealthy = TRUE,
                                     !.successRate = MinInt(100, health.successRate + 1)]]
             ELSE LET n == health.consecutiveFailures + 1
                  IN  [h EXCEPT ![providerName] =
                          [health EXCEPT !.consecutiveFailures = n,
                                         !.successRate = MaxInt(0, health.successRate - 5),
                                         !.isHealthy = IF n >= CIRCUIT_BREAKER_THRESHOLD
                                                       THEN FALSE
                                                       ELSE health.isHealthy]]

\* The failure reports since the last success report, counted where
\* updateProviderHealth is called
reportRun(run, providerName, success) ==
    IF providerName \notin DOMAIN run THEN run
    ELSE [run EXCEPT ![providerName] = IF success THEN 0 ELSE run[providerName] + 1]

\* A variant that keeps the entry a key already has
cacheSet_keepsFirst(c, key, entry) ==
    IF key \in DOMAIN c THEN c
    ELSE [k \in DOMAIN c \cup {key} |-> IF k = key THEN entry ELSE c[k]]

\* responseCache.set(key, entry)
cacheSet(c, key, entry) ==
    [k \in DOMAIN c \cup {key} |-> IF k = key THEN entry ELSE c[k]]

\* A variant that sweeps every entry, whatever its age
cleanupCache_all(c, t) ==
    [k \in {x \in DOMAIN c : ~(t - c[x].timestamp >= 0)} |-> c[k]]

\* A variant that sweeps nothing
cleanupCache_never(c, t) == c

\* cleanupCache: delete every entry with now - timestamp > CACHE_TTL
cleanupCache(c, t) ==
    [k \in {x \in DOMAIN c : ~(t - c[x].timestamp > CACHE_TTL)} |-> c[k]]

\* A variant that still answers from an entry of age CACHE_TTL
isCacheHit_inclusive(c, key, t) ==
    key \in DOMAIN c /\ (t - c[key].timestamp) <= CACHE_TTL

\* cached && (Date.now() - cached.timestamp) < CACHE_TTL
isCacheHit(c, key, t) ==
    key \in DOMAIN c /\ (t - c[key].timestamp) < CACHE_TTL

\* const until = providerCooldownUntil.openai; !until || until < Date.now()
notCooling(cd, p, nowTs) == cd[p] = 0 \/ cd[p] < nowTs

\* Object.entries(providerHealth): the keys in the order of their insertion
HealthKeys == <<"aiml", "gemini", "huggingface", "freehf", "openai", "local">>

\* .sort((a, b) => a.priority - b.priority) of the entries with keys ks: a
\* stable sort, so entries of one priority keep the order of HealthKeys
RECURSIVE sortByPriority(_, _)
sortByPriority(h, ks) ==
    IF ks = {} THEN <<>>
    ELSE LET first == CHOOSE k \in ks :
                          \A j \in ks :
                              \/ h[HealthKeys[k]].priority < h[HealthKeys[j]].priority
                              \/ /\ h[HealthKeys[k]].priority = h[HealthKeys[j]].priority
                                 /\ k <= j
         IN  <<HealthKeys[first]>> \o sortByPriority(h, ks \ {first})

\* healthyProviders of executeIntelligentAIStrategy (lines 132-134): its
\* length is logged, and nothing else reads it
healthyProviders(h, cd, nowTs) ==
    sortByPriority(h, {k \in DOMAIN HealthKeys :
                          /\ h[HealthKeys[k]].isHealthy
                          /\ h[HealthKeys[k]].consecutiveFailures < CIRCUIT_BREAKER_THRESHOLD
                          /\ (HealthKeys[k] \in DOMAIN cd => notCooling(cd, HealthKeys[k], nowTs))})

\* A variant that launches the preferred provider alone: the first of
\* healthyProviders that has its credential
shouldLaunch_preferredOnly(p, h, cd, e, nowTs) ==
    LET keyed == [aiml |-> "AIML_API_KEY" \in e, gemini |-> "GEMINI_API_KEY" \in e,
                  huggingface |-> "HUGGING_FACE_TOKEN" \in e, freehf |-> TRUE,
                  openai |-> "OPENAI_API_KEY" \in e, local |-> FALSE]
        order == healthyProviders(h, cd, nowTs)
        able  == {k \in DOMAIN order : keyed[order[k]]}
    IN  able # {} /\ p = order[CHOOSE k \in able : \A j \in able : k <= j]

\* A variant that launches whatever isHealthy says
shouldLaunch_ignoringHealth(p, h, cd, e, nowTs) ==
    IF p = "aiml" THEN "AIML_API_KEY" \in e
    ELSE IF p = "gemini" THEN "GEMINI_API_KEY" \in e
    ELSE IF p = "huggingface" THEN "HUGGING_FACE_TOKEN" \in e
    ELSE IF p = "freehf" THEN TRUE
    ELSE "OPENAI_API_KEY" \in e /\ notCooling(cd, "openai", nowTs)

\* A variant that probes freehf again once its circuit has tripped
shouldLaunch_halfOpen(p, h, cd, e, nowTs) ==
    IF p = "aiml" THEN "AIML_API_KEY" \in e /\ h.aiml.isHealthy
    ELSE IF p = "gemini" THEN "GEMINI_API_KEY" \in e /\ h.gemini.isHealthy
    ELSE IF p = "huggingface" THEN "HUGGING_FACE_TOKEN" \in e /\ h.huggingface.isHealthy
    ELSE IF p = "freehf"
        THEN h.freehf.isHealthy \/ h.freehf.consecutiveFailures >= CIRCUIT_BREAKER_THRESHOLD
    ELSE "OPENAI_API_KEY" \in e /\ h.openai.isHealthy /\ notCooling(cd, "openai", nowTs)

\* A variant that launches the task of openai without its credential
shouldLaunch_openaiUnkeyed(p, h, cd, e, nowTs) ==
    IF p = "aiml" THEN "AIML_API_KEY" \in e /\ h.aiml.isHealthy
    ELSE IF p = "gemini" THEN "GEMINI_API_KEY" \in e /\ h.gemini.isHealthy
    ELSE IF p = "huggingface" THEN "HUGGING_FACE_TOKEN" \in e /\ h.huggingface.isHealthy
    ELSE IF p = "freehf" THEN h.freehf.isHealthy
    ELSE h.openai.isHealthy /\ notCooling(cd, "openai", nowTs)

\* The conditions under which executeIntelligentAIStrategy pushes a task
shouldLaunch(p, h, cd, e, nowTs) ==
    IF p = "aiml" THEN "AIML_API_KEY" \in e /\ h.aiml.isHealthy
    ELSE IF p = "gemini" THEN "GEMINI_API_KEY" \in e /\ h.gemini.isHealthy
    ELSE IF p = "huggingface" THEN "HUGGING_FACE_TOKEN" \in e /\ h.huggingface.isHealthy
    ELSE IF p = "freehf" THEN h.freehf.isHealthy
    ELSE "OPENAI_API_KEY" \in e /\ h.openai.isHealthy /\ notCooling(cd, "openai", nowTs)

\* A variant that names one provider whatever the task
retryResult_fixedName(providerName, result) == [provider |-> "freehf", result |-> result]

\* return { provider: providerName, result } of executeWithRetry
retryResult(providerName, result) == [provider |-> providerName, result |-> result]

\* A variant that makes its second attempt whatever the first came to
retryStep_alwaysTwice(attempt, r) ==
    IF attempt < MAX_RETRIES THEN "backoff"
    ELSE IF r.ok THEN "return"
    ELSE "giveUp"

\* A variant that does not retry a call whose timer won
retryStep_timeoutFinal(attempt, r) ==
    IF r.ok THEN "return"
    ELSE IF attempt = MAX_RETRIES \/ r.error = TimeoutError THEN "giveUp"
    ELSE "backoff"

\* What executeWithRetry does with the result r of attempt number attempt
retryStep(attempt, r) ==
    IF r.ok THEN "return"
    ELSE IF attempt = MAX_RETRIES THEN "giveUp"
    ELSE "backoff"

\* A variant that waits for a winner: it never rejects
promiseAny_neverRejects(ts) ==
    IF \E p \in ProviderSet : ts[p].state = "returned" THEN "fulfilled" ELSE "pending"

\* A variant that settles like Promise.allSettled: only when no task is left
promiseAny_allSettled(ts) ==
    IF \E p \in ProviderSet : ts[p].state \in {"calling", "backoff"} THEN "pending"
    ELSE IF \E p \in ProviderSet : ts[p].state = "returned" THEN "fulfilled"
    ELSE "rejected"

\* Promise.any over the tasks of one race: fulfilled by the first task that
\* returns, rejected when every task has thrown (or none was pushed)
promiseAny(ts) ==
    IF \E p \in ProviderSet : ts[p].state = "returned" THEN "fulfilled"
    ELSE IF \A p \in ProviderSet : ts[p].state \in {"none", "threw"} THEN "rejected"
    ELSE "pending"

Pending(ts) == {p \in ProviderSet : ts[p].state \in {"calling", "backoff"}}

\* A variant that cancels the other runs once the request is answered
Forget_cancels(ts) == NoTasks

\* Once POST has returned, the tasks that have ended are forgotten
Forget(ts) == [p \in ProviderSet |-> IF p \in Pending(ts) THEN ts[p] ELSE NoTask]

\* The response of a miss (lines 106-117)
missResponse(commitMessage, analysis, usedProvider) ==
    [commitMessage |-> commitMessage,
     analysis |-> [complexity |-> analysis.complexity,
                   changeType |-> analysis.changeType,
                   confidence |-> analysis.confidence,
                   provider |-> usedProvider,
                   fileName |-> analysis.fileName,
                   totalChanges |-> analysis.totalChanges,
                   cacheHit |-> FALSE]]

\* The response of a hit (lines 78-83)
hitResponse(cachedEntry) ==
    [commitMessage |-> cachedEntry.response,
     analysis |-> cachedEntry.analysis,
     provider |-> "cache",
     cached |-> TRUE]

errorResponse(error) == [error |-> error]

\* Readers of a returned response.  Only a hit has the fields cached and
\* provider at the top level; a miss names the provider inside analysis.
isSuccess(r) == r.status = 200
isHit(r) == isSuccess(r) /\ "cached" \in DOMAIN r.response /\ r.response.cached
providerOf(r) ==
    IF "provider" \in DOMAIN r.response THEN r.response.provider
    ELSE r.response.analysis.provider

\* ------------------------------------------------------------------------
\* Actions
\* ------------------------------------------------------------------------

\* A sequence without its i-th element, and with it replaced
Without(q, i) == SubSeq(q, 1, i - 1) \o SubSeq(q, i + 1, Len(q))

\* How many tasks are running
RECURSIVE RunningFrom(_, _)
RunningFrom(tss, i) ==
    IF i > Len(tss) THEN 0 ELSE Cardinality(Pending(tss[i])) + RunningFrom(tss, i + 1)

Running == RunningFrom(tasks, 1)

\* A variant without the fallback: a race nobody wins yields no text
strategyResult_noFallback(ts, b) ==
    IF promiseAny(ts) = "fulfilled"
    THEN ts[CHOOSE p \in ProviderSet : ts[p].state = "returned"].value
    ELSE [result |-> "", provider |-> "none"]

\* A variant whose fallback text depends on the health table
strategyResult_healthInText(ts, b) ==
    IF promiseAny(ts) = "fulfilled"
    THEN ts[CHOOSE p \in ProviderSet : ts[p].state = "returned"].value
    ELSE [result |-> IF providerHealth.freehf.consecutiveFailures = 0
                     THEN tables.local[b] ELSE "chore: update code",
          provider |-> "local"]

\* executeIntelligentAIStrategy after the race: the winner, or the local
\* engine's text with provider 'local'
strategyResult(ts, b) ==
    IF promiseAny(ts) = "fulfilled"
    THEN ts[CHOOSE p \in ProviderSet : ts[p].state = "returned"].value
    ELSE [result |-> tables.local[b], provider |-> "local"]

\* What a request that reaches the cache check meets
Met(b) ==
    LET key   == tables.key[b]
        fresh == b \in DOMAIN lastStore /\ now - lastStore[b].at < CACHE_TTL
    IN  [NotReturned EXCEPT
            !.body = b,
            !.looked = TRUE,
            !.entryAge = IF key \in DOMAIN responseCache
                         THEN now - responseCache[key].timestamp ELSE -1,
            !.fresh = fresh,
            !.freshMessage = IF fresh THEN lastStore[b].message ELSE ""]

\* The requests and their tasks after request i, now answered, is left with
\* the tasks ts: it stays while tasks of its race run
Keep(i, r, ts) ==
    IF Pending(ts) = {}
    THEN /\ req' = Without(req, i)
         /\ tasks' = Without(tasks, i)
    ELSE /\ req' = [req EXCEPT ![i] = [r EXCEPT !.racing = FALSE]]
         /\ tasks' = [tasks EXCEPT ![i] = Forget(ts)]

\* The race of request r is over with its tasks in states ts: the winner's
\* health report, then lines 96-117 of POST (store, sweep, respond).  h and
\* run are the health table and the failure runs after the reports made so
\* far in this step, src is what produced the message.
Complete(r, ts, h, run, src) ==
    LET b      == r.body
        strat  == strategyResult(ts, b)
        won    == promiseAny(ts) = "fulfilled"
        entry  == [response |-> strat.result, timestamp |-> now,
                   analysis |-> tables.input[b].analysis]
        answer == missResponse(strat.result, tables.input[b].analysis, strat.provider)
    IN  /\ providerHealth' = IF won THEN updateProviderHealth(h, strat.provider, TRUE) ELSE h
        /\ failureRun' = IF won THEN reportRun(run, strat.provider, TRUE) ELSE run
        /\ responseCache' = cleanupCache(cacheSet(responseCache, tables.key[b], entry), now)
        /\ lastStore' = cacheSet(lastStore, b,
                                 [message |-> answer.commitMessage, at |-> now,
                                  key |-> tables.key[b], fn |-> src.fn])
        /\ returned' = [r.met EXCEPT !.status = 200,
                                     !.response = answer,
                                     !.source = src,
                                     !.race = [p \in ProviderSet |-> ts[p].state],
                                     !.replaced =
                                         IF tables.key[b] \in DOMAIN responseCache
                                         THEN [response |-> responseCache[tables.key[b]].response,
                                               timestamp |-> responseCache[tables.key[b]].timestamp]
                                         ELSE @]

\* A variant in which the report of a run is dropped once its request has
\* been answered
Advance_dropsLateReports(i, ts, h, run, src) ==
    IF req[i].racing /\ promiseAny(ts) # "pending"
    THEN Complete(req[i], ts, h, run, src) /\ Keep(i, req[i], ts)
    ELSE /\ providerHealth' = IF req[i].racing THEN h ELSE providerHealth
         /\ failureRun' = IF req[i].racing THEN run ELSE failureRun
         /\ returned' = NotReturned
         /\ IF req[i].racing
            THEN tasks' = [tasks EXCEPT ![i] = ts] /\ req' = req
            ELSE Keep(i, req[i], ts)
         /\ UNCHANGED <<responseCache, lastStore>>

\* After a step of a task of request i: the race ends if Promise.any has
\* settled, else it goes on; a task of a request already answered only
\* leaves its health report.
Advance(i, ts, h, run, src) ==
    IF req[i].racing /\ promiseAny(ts) # "pending"
    THEN Complete(req[i], ts, h, run, src) /\ Keep(i, req[i], ts)
    ELSE /\ providerHealth' = h
         /\ failureRun' = run
         /\ returned' = NotReturned
         /\ IF req[i].racing
            THEN tasks' = [tasks EXCEPT ![i] = ts] /\ req' = req
            ELSE Keep(i, req[i], ts)
         /\ UNCHANGED <<responseCache, lastStore>>

\* A variant whose catch answers as the input check does
PostFault_badRequest(b) ==
    /\ \/ Bodies[b].kind = "unreadable"
       \/ /\ Bodies[b].kind = "number"
          /\ ~isCacheHit(responseCache, tables.key[b], now)
    /\ returned' = [NotReturned EXCEPT
                       !.status = 400,
                       !.response = errorResponse("Git diff is required"),
                       !.body = b,
                       !.looked = Bodies[b].kind = "number"]
    /\ sent' = {}
    /\ UNCHANGED <<responseCache, providerHealth, req, tasks, budget, lastStore,
                   failureRun>>

\* const { diff } = await req.json() throws, or redactSecrets throws on a
\* diff without replace, the cache having no live entry under its key: the
\* catch answers 500
PostFault(b) ==
    /\ \/ Bodies[b].kind = "unreadable"
       \/ /\ Bodies[b].kind = "number"
          /\ ~isCacheHit(responseCache, tables.key[b], now)
    /\ returned' = [NotReturned EXCEPT
                       !.status = 500,
                       !.response = errorResponse("Failed to generate commit message"),
                       !.body = b,
                       !.looked = Bodies[b].kind = "number"]
    /\ sent' = {}
    /\ UNCHANGED <<responseCache, providerHealth, req, tasks, budget, lastStore,
                   failureRun>>

\* if (!diff) return 400
PostInvalid(b) ==
    /\ Bodies[b].kind # "unreadable"
    /\ diffMissing(Bodies[b])
    /\ returned' = [NotReturned EXCEPT
                       !.status = 400,
                       !.response = errorResponse("Git diff is required"),
                       !.body = b]
    /\ sent' = {}
    /\ UNCHANGED <<responseCache, providerHealth, req, tasks, budget, lastStore,
                   failureRun>>

\* A variant in which a hit renews the entry it answers from
PostHit_touches(b) ==
    /\ Bodies[b].kind # "unreadable"
    /\ ~diffMissing(Bodies[b])
    /\ isCacheHit(responseCache, tables.key[b], now)
    /\ returned' = [Met(b) EXCEPT
                       !.status = 200,
                       !.response = hitResponse(responseCache[tables.key[b]]),
                       !.source = [fn |-> "responseCache.get", provider |-> "",
                                   text |-> responseCache[tables.key[b]].response]]
    /\ sent' = {}
    /\ responseCache' = [responseCache EXCEPT ![tables.key[b]].timestamp = now]
    /\ UNCHANGED <<providerHealth, req, tasks, budget, lastStore, failureRun>>

\* The cache has a live entry for the key: answer from it
PostHit(b) ==
    /\ Bodies[b].kind # "unreadable"
    /\ ~diffMissing(Bodies[b])
    /\ isCacheHit(responseCache, tables.key[b], now)
    /\ returned' = [Met(b) EXCEPT
                       !.status = 200,
                       !.response = hitResponse(responseCache[tables.key[b]]),
                       !.source = [fn |-> "responseCache.get", provider |-> "",
                                   text |-> responseCache[tables.key[b]].response]]
    /\ sent' = {}
    /\ UNCHANGED <<responseCache, providerHealth, req, tasks, budget, lastStore,
                   failureRun>>

\* The local engine as the source of the message for body b
LocalSource(b) ==
    [fn |-> "generateLocalPatternBasedCommit", provider |-> "", text |-> tables.local[b]]

\* The provider request of the task of provider p for body b
Request(b, p, attempt) ==
    [raw |-> b, to |-> p, attempt |-> attempt,
     body |-> requestBody(AdapterOf[p], tables.input[b].diff, tables.input[b].analysis)]

\* A miss: sanitize, analyse, push one executeWithRetry per eligible
\* provider (each runs up to its first fetch), then await Promise.any.  With
\* no task pushed Promise.any rejects at once and the request ends here.
PostMiss(b) ==
    /\ Bodies[b].kind = "string"
    /\ ~diffMissing(Bodies[b])
    /\ ~isCacheHit(responseCache, tables.key[b], now)
    /\ LET launched == {p \in ProviderSet :
                           shouldLaunch(p, providerHealth, providerCooldownUntil, env, now)}
           ts == [p \in ProviderSet |->
                     IF p \in launched
                     THEN [NoTask EXCEPT !.state = "calling", !.attempt = 1]
                     ELSE NoTask]
           r  == [racing |-> TRUE, body |-> b, met |-> Met(b)]
       IN  /\ Cardinality(launched) <= budget
           /\ Running + Cardinality(launched) <= MaxRunning
           /\ budget' = budget - Cardinality(launched)
           /\ sent' = {Request(b, p, 1) : p \in launched}
           /\ IF promiseAny(ts) = "pending"
              THEN /\ req' = Append(req, r)
                   /\ tasks' = Append(tasks, ts)
                   /\ returned' = NotReturned
                   /\ UNCHANGED <<responseCache, providerHealth, lastStore, failureRun>>
              ELSE /\ Complete(r, ts, providerHealth, failureRun, LocalSource(b))
                   /\ UNCHANGED <<req, tasks>>

\* export async function POST(req), entered with request body b
POST(b) ==
    /\ \/ PostFault(b)
       \/ PostInvalid(b)
       \/ PostHit(b)
       \/ PostMiss(b)
    /\ settled' = NotSettled
    /\ UNCHANGED <<now, ticks, env, tables, providerCooldownUntil, probe>>

\* A variant that reports every failed attempt, not only the last
retryReports_everyAttempt(p, step) ==
    IF step = "return"
        THEN <<[provider |-> p, success |-> TRUE, by |-> "executeWithRetry"]>>
    ELSE <<[provider |-> p, success |-> FALSE, by |-> "executeWithRetry"]>>

\* The calls of updateProviderHealth one step of executeWithRetry makes
\* (lines 189 and 196)
retryReports(p, step) ==
    IF step = "return"
        THEN <<[provider |-> p, success |-> TRUE, by |-> "executeWithRetry"]>>
    ELSE IF step = "giveUp"
        THEN <<[provider |-> p, success |-> FALSE, by |-> "executeWithRetry"]>>
    ELSE <<>>

\* The call executeIntelligentAIStrategy makes for the winner (line 171) when
\* the task of provider p returns while the race of request r is on
strategyReports(r, p, step) ==
    IF r.racing /\ step = "return"
    THEN <<[provider |-> p, success |-> TRUE, by |-> "executeIntelligentAIStrategy"]>>
    ELSE <<>>

\* The health table and the failure runs after the reports rs, in order
RECURSIVE reported(_, _, _)
reported(h, run, rs) ==
    IF rs = <<>> THEN [health |-> h, run |-> run]
    ELSE reported(updateProviderHealth(h, Head(rs).provider, Head(rs).success),
                  reportRun(run, Head(rs).provider, Head(rs).success),
                  Tail(rs))

\* The adapter call of the task of provider p of request i settles with
\* result r
CallSettles(i, p, r) ==
    /\ i \in DOMAIN tasks
    /\ tasks[i][p].state = "calling"
    /\ LET t     == tasks[i][p]
           step  == retryStep(t.attempt, r)
           after == reported(providerHealth, failureRun, retryReports(p, step))
       IN  \/ /\ step = "return"
              /\ Advance(i,
                         [tasks[i] EXCEPT ![p] = [t EXCEPT !.state = "returned",
                                                           !.value = retryResult(p, r.text)]],
                         after.health, after.run,
                         [fn |-> AdapterOf[p], provider |-> p, text |-> r.text])
           \/ /\ step = "giveUp"
              /\ Advance(i,
                         [tasks[i] EXCEPT ![p] = [t EXCEPT !.state = "threw"]],
                         after.health, after.run,
                         LocalSource(req[i].body))
           \/ /\ step = "backoff"
              /\ Advance(i,
                         [tasks[i] EXCEPT ![p] = [t EXCEPT !.state = "backoff",
                                                           !.wakeAt = now + BackoffMs(t.attempt)]],
                         after.health, after.run, NoSource)
    /\ sent' = {}
    /\ settled' = [provider |-> p, attempt |-> tasks[i][p].attempt, result |-> r,
                   step |-> retryStep(tasks[i][p].attempt, r),
                   rethrown |-> IF retryStep(tasks[i][p].attempt, r) = "giveUp"
                                THEN r.error ELSE "",
                   reports |-> retryReports(p, retryStep(tasks[i][p].attempt, r))
                                   \o strategyReports(req[i], p,
                                                      retryStep(tasks[i][p].attempt, r)),
                   before |-> providerHealth[p],
                   racing |-> req[i].racing]
    /\ UNCHANGED <<now, ticks, env, tables, providerCooldownUntil, budget, probe>>

\* The backoff timer of a task fires: the next attempt calls the adapter again
BackoffExpires(i, p) ==
    /\ i \in DOMAIN tasks
    /\ tasks[i][p].state = "backoff"
    /\ now >= tasks[i][p].wakeAt
    /\ tasks' = [tasks EXCEPT ![i][p] = [@ EXCEPT !.state = "calling",
                                                  !.attempt = @ + 1]]
    /\ sent' = {Request(req[i].body, p, tasks[i][p].attempt + 1)}
    /\ returned' = NotReturned
    /\ settled' = NotSettled
    /\ UNCHANGED <<now, ticks, env, tables, responseCache, providerHealth, providerCooldownUntil,
                   req, budget, lastStore, failureRun, probe>>

\* Time passes
Tick(d) ==
    /\ ticks < MaxTicks
    /\ now' = now + d
    /\ ticks' = ticks + 1
    /\ returned' = NotReturned
    /\ sent' = {}
    /\ settled' = NotSettled
    /\ UNCHANGED <<env, tables, responseCache, providerHealth, providerCooldownUntil, req, tasks,
                   budget, lastStore, failureRun, probe>>

Next ==
    \/ \E b \in UsualIds : POST(b)
    \/ \E i \in 1..MaxRunning, p \in ProviderSet :
           \E r \in tables.results[AdapterOf[p]] : CallSettles(i, p, r)
    \/ \E i \in 1..MaxRunning, p \in ProviderSet : BackoffExpires(i, p)
    \/ \E d \in TickSteps : Tick(d)

Spec == Init /\ [][Next]_vars

\* The same program with no credential set and with one more task to launch
\* than it takes to trip the circuit of a provider; its requests carry a diff
\* and its clock advances by the backoff delay
InitBreaker ==
    /\ now = 0
    /\ ticks = 0
    /\ env = {}
    /\ tables = Tables
    /\ responseCache = <<>>
    /\ providerHealth = InitialHealth
    /\ providerCooldownUntil = [p \in ProviderSet |-> 0]
    /\ req = <<>>
    /\ tasks = <<>>
    /\ budget = CIRCUIT_BREAKER_THRESHOLD + 1
    /\ returned = NotReturned
    /\ sent = {}
    /\ lastStore = <<>>
    /\ failureRun = [p \in ProviderSet |-> 0]
    /\ settled = NotSettled
    /\ probe = NoProbe

NextBreaker ==
    \/ \E b \in {x \in UsualIds : Bodies[x].kind = "string" /\ Bodies[x].diff # ""} : POST(b)
    \/ \E i \in 1..MaxRunning, p \in ProviderSet :
           \E r \in tables.results[AdapterOf[p]] : CallSettles(i, p, r)
    \/ \E i \in 1..MaxRunning, p \in ProviderSet : BackoffExpires(i, p)
    \/ Tick(BackoffMs(1))

SpecBreaker == InitBreaker /\ [][NextBreaker]_vars

\* await new Promise(resolve => setTimeout(resolve, ...)): time passes until
\* the backoff timer of a task is due
TimerDue(i, p) ==
    /\ i \in DOMAIN tasks
    /\ tasks[i][p].state = "backoff"
    /\ now < tasks[i][p].wakeAt
    /\ now' = tasks[i][p].wakeAt
    /\ returned' = NotReturned
    /\ sent' = {}
    /\ settled' = NotSettled
    /\ UNCHANGED <<ticks, env, tables, responseCache, providerHealth, providerCooldownUntil,
                   req, tasks, budget, lastStore, failureRun, probe>>

\* A step of a task: its adapter call settles, or its backoff timer comes
\* due and fires
TaskStep ==
    \E i \in 1..MaxRunning, p \in ProviderSet :
        \/ \E r \in tables.results[AdapterOf[p]] : CallSettles(i, p, r)
        \/ BackoffExpires(i, p)
        \/ TimerDue(i, p)

\* The program with the clock driven by its timers: every provider call
\* settles and every timer fires, sooner or later
NextLive ==
    \/ \E b \in UsualIds : POST(b)
    \/ \E i \in 1..MaxRunning, p \in ProviderSet :
           \E r \in tables.results[AdapterOf[p]] : CallSettles(i, p, r)
    \/ \E i \in 1..MaxRunning, p \in ProviderSet : BackoffExpires(i, p)
    \/ \E i \in 1..MaxRunning, p \in ProviderSet : TimerDue(i, p)

SpecLive == Init /\ [][NextLive]_vars /\ WF_vars(TaskStep)

\* The program asked for the two texts of one key
NextCollide ==
    \/ \E b \in CollidingIds : POST(b)
    \/ \E i \in 1..MaxRunning, p \in ProviderSet :
           \E r \in tables.results[AdapterOf[p]] : CallSettles(i, p, r)
    \/ \E i \in 1..MaxRunning, p \in ProviderSet : BackoffExpires(i, p)
    \/ \E d \in TickSteps : Tick(d)

SpecCollide == Init /\ [][NextCollide]_vars

\* The priorities declared in the table of providers (lines 38-43), and the
\* same in the opposite order
DeclaredPriority ==
    [aiml |-> 1, gemini |-> 2, huggingface |-> 3, freehf |-> 4, openai |-> 5, local |-> 6]
ReversedPriority ==
    [aiml |-> 6, gemini |-> 5, huggingface |-> 4, freehf |-> 3, openai |-> 2, local |-> 1]
PriorityChoices == {DeclaredPriority, ReversedPriority}

\* The health table h with the priorities pr
withPriority(h, pr) == [p \in DOMAIN h |-> [h[p] EXCEPT !.priority = pr[p]]]

\* The program started with the table of providers declared with one or the
\* other priorities
InitPriority ==
    /\ now = 0
    /\ ticks = 0
    /\ env \in {e \in SUBSET Credentials : Cardinality(e) <= MaxCredentials}
    /\ tables = Tables
    /\ responseCache = <<>>
    /\ providerHealth \in {withPriority(InitialHealth, pr) : pr \in PriorityChoices}
    /\ providerCooldownUntil = [p \in ProviderSet |-> 0]
    /\ req = <<>>
    /\ tasks = <<>>
    /\ budget = MaxTasks
    /\ returned = NotReturned
    /\ sent = {}
    /\ lastStore = <<>>
    /\ failureRun = [p \in ProviderSet |-> 0]
    /\ settled = NotSettled
    /\ probe = NoProbe

SpecPriority == InitPriority /\ [][Next]_vars

\* ------------------------------------------------------------------------
\* The health tracker on its own: the runs of executeWithRetry that many
\* requests launched while their providers were healthy end one after the
\* other, each with its one report (lines 189 and 196)
\* ------------------------------------------------------------------------

\* At most this many runs end
MaxReports == 21

\* The providers whose runs end: freehf starts at 0.70, aiml at 0.95
ReportedSet == {"freehf", "aiml"}

InitHealth ==
    /\ now = 0
    /\ ticks = 0
    /\ env = {"AIML_API_KEY"}
    /\ tables = Tables
    /\ responseCache = <<>>
    /\ providerHealth = InitialHealth
    /\ providerCooldownUntil = [p \in ProviderSet |-> 0]
    /\ req = <<>>
    /\ tasks = <<>>
    /\ budget = MaxReports
    /\ returned = NotReturned
    /\ sent = {}
    /\ lastStore = <<>>
    /\ failureRun = [p \in ProviderSet |-> 0]
    /\ settled = NotSettled
    /\ probe = NoProbe

\* A run of provider p ends after its request was answered: with a text
\* (success), or on the failure of its last attempt
RunEnds(p, success) ==
    /\ budget > 0
    /\ budget' = budget - 1
    /\ LET step  == IF success THEN "return" ELSE "giveUp"
           after == reported(providerHealth, failureRun, retryReports(p, step))
       IN  /\ providerHealth' = after.health
           /\ failureRun' = after.run
           /\ settled' = [NotSettled EXCEPT !.provider = p,
                                            !.step = step,
                                            !.reports = retryReports(p, step),
                                            !.before = providerHealth[p]]
    /\ returned' = NotReturned
    /\ sent' = {}
    /\ UNCHANGED <<now, ticks, env, tables, responseCache, providerCooldownUntil, req, tasks,
                   lastStore, probe>>

NextHealth == \E p \in ReportedSet, success \in BOOLEAN : RunEnds(p, success)

SpecHealth == InitHealth /\ [][NextHealth]_vars

\* ------------------------------------------------------------------------
\* The classifier on its own: analyzeDiff applied to diffs made of lines
\* that each match the pattern of one category and of no other
\* ------------------------------------------------------------------------

Snippets ==
    <<[type |-> "api",         line |-> "+axios\n"],
      [type |-> "database",    line |-> "+SELECT * FROM t\n"],
      [type |-> "config",      line |-> "+webpack\n"],
      [type |-> "docs",        line |-> "+readme\n"],
      [type |-> "test",        line |-> "+expect\n"],
      [type |-> "styling",     line |-> "+color\n"],
      [type |-> "refactor",    line |-> "+import y\n"],
      [type |-> "performance", line |-> "+lazy\n"],
      [type |-> "security",    line |-> "+jwt\n"],
      [type |-> "bugFix",      line |-> "+x.trim()\n"],
      [type |-> "feature",     line |-> "+const x = () => {}\n"]>>

\* How many categories one sampled diff has lines of, at most
MaxSampled == 3

SampleInputs ==
    {S \in SUBSET {Snippets[k].type : k \in 1..Len(Snippets)} :
        Cardinality(S) <= MaxSampled}

\* The diff with the lines of the categories in S, from the k-th snippet on
RECURSIVE sampleDiff(_, _)
sampleDiff(S, k) ==
    IF k > Len(Snippets) THEN ""
    ELSE (IF Snippets[k].type \in S THEN Snippets[k].line ELSE "") \o sampleDiff(S, k + 1)

\* const analysis = analyzeDiff(safeDiff), on a sampled diff
Analyze(S) ==
    /\ probe.fn = ""
    /\ probe' = [fn |-> "analyzeDiff", input |-> S, diff |-> sampleDiff(S, 1),
                 out |-> analyzeDiff(sampleDiff(S, 1))]
    /\ UNCHANGED <<now, ticks, env, tables, responseCache, providerHealth,
                   providerCooldownUntil, req, tasks, budget, returned, sent, lastStore,
                   failureRun, settled>>

\* Each behaviour applies it once, to any of the sampled diffs
NextAnalyze == \E S \in SampleInputs : Analyze(S)

InitAnalyze == Init /\ env = {}

SpecAnalyze == InitAnalyze /\ [][NextAnalyze]_vars

\* ------------------------------------------------------------------------
\* The measure of complexity on its own: analyzeDiff applied to diffs of so
\* many files with so many lines added and removed
\* ------------------------------------------------------------------------

\* At most this many added lines, and the counts of removed lines and files
MaxAdded == 41
RemovedCounts == {0, 10}
MaxFiles == 2

\* files headers of a git diff, then the added and the removed lines
changesDiff(added, removed, files) ==
    Rep("diff --git a/m b/m\n", files) \o Rep("+\n", added)
        \o Rep("-\n", removed)

\* const analysis = analyzeDiff(safeDiff), on a diff of the given counts
Measure(added, removed, files) ==
    /\ probe.fn = ""
    /\ probe' = [fn |-> "analyzeDiff",
                 input |-> [added |-> added, removed |-> removed, files |-> files],
                 diff |-> changesDiff(added, removed, files),
                 out |-> analyzeDiff(changesDiff(added, removed, files))]
    /\ UNCHANGED <<now, ticks, env, tables, responseCache, providerHealth,
                   providerCooldownUntil, req, tasks, budget, returned, sent, lastStore,
                   failureRun, settled>>

NextMeasure ==
    \E added \in 0..MaxAdded, removed \in RemovedCounts, files \in 1..MaxFiles :
        Measure(added, removed, files)

SpecMeasure == InitAnalyze /\ [][NextMeasure]_vars

\* ------------------------------------------------------------------------
\* The local engine on its own: analyzeDiff, then
\* generateLocalPatternBasedCommit on the same diff and its analysis, as
\* POST calls them (lines 91 and 179)
\* ------------------------------------------------------------------------

\* The sampled diffs without the header of a file, and those of at most one
\* line with it
FileHeaders == {"", "diff --git a/m.js b/m.js\n"}
LocalInputs ==
    {x \in SampleInputs \X FileHeaders : x[2] = "" \/ Cardinality(x[1]) <= 1}

Generate(S, header) ==
    /\ probe.fn = ""
    /\ LET diff     == header \o sampleDiff(S, 1)
           analysis == analyzeDiff(diff)
       IN  probe' = [fn |-> "generateLocalPatternBasedCommit", input |-> S, diff |-> diff,
                     out |-> [analysis |-> analysis,
                              text |-> generateLocalPatternBasedCommit(diff, analysis)]]
    /\ UNCHANGED <<now, ticks, env, tables, responseCache, providerHealth,
                   providerCooldownUntil, req, tasks, budget, returned, sent, lastStore,
                   failureRun, settled>>

NextLocal == \E x \in LocalInputs : Generate(x[1], x[2])

SpecLocal == InitAnalyze /\ [][NextLocal]_vars

\* ------------------------------------------------------------------------
\* The sanitizer on its own: lines 87-88 of POST applied to diffs with one
\* secret at some place around character 12000
\* ------------------------------------------------------------------------

\* The secret starts at most this many characters before and after the
\* budget of truncateDiff
MaxBefore == 45
MaxAfter == 10

SecretValue == "Z9Z9Z9Z9Z9Z9Z9Z9Z9Z9"
SecretForms == {"token=" \o SecretValue, "Bearer " \o SecretValue}

\* A diff whose secret starts after k characters
longDiff(k, secret) == Rep("#", k) \o secret \o "\n" \o Rep("#", 30)

LongInputs == ((MAX_DIFF_CHARS - MaxBefore)..(MAX_DIFF_CHARS + MaxAfter)) \X SecretForms

Sanitize(k, secret) ==
    /\ probe.fn = ""
    /\ LET diff == longDiff(k, secret)
       IN  probe' = [fn |-> "safeDiffOf", input |-> <<k, secret>>, diff |-> diff,
                     out |-> [redacted |-> redactSecrets(diff), safe |-> safeDiffOf(diff)]]
    /\ UNCHANGED <<now, ticks, env, tables, responseCache, providerHealth,
                   providerCooldownUntil, req, tasks, budget, returned, sent, lastStore,
                   failureRun, settled>>

NextSanitize == \E x \in LongInputs : Sanitize(x[1], x[2])

SpecSanitize == InitAnalyze /\ [][NextSanitize]_vars

\* ------------------------------------------------------------------------
\* Properties
\* ------------------------------------------------------------------------

\* The request that has just been answered carried a non-empty string as diff
HasDiff(b) == b \in BodyIds /\ Bodies[b].kind = "string" /\ Bodies[b].diff # ""

\* The tasks of the race of the answered request that are in state st
RaceIn(st) == {p \in ProviderSet : returned.race[p] = st}

\* The answered request went through the race
IsMiss == returned.status = 200 /\ ~isHit(returned)



\* C1: every request whose diff is a non-empty string is answered with a
\* success response whose commitMessage is not the empty string.
C1_NonEmptyMessage ==
    (returned.status # 0 /\ HasDiff(returned.body))
        => /\ returned.status = 200
           /\ returned.response.commitMessage # ""

C3_FirstSuccessWins ==
    /\ \A i \in DOMAIN req :
          req[i].racing => /\ \A p \in ProviderSet : tasks[i][p].state # "returned"
                           /\ Pending(tasks[i]) # {}
    /\ IsMiss =>
          /\ RaceIn("returned") = {} => RaceIn("calling") \cup RaceIn("backoff") = {}
          /\ RaceIn("returned") # {} =>
                /\ RaceIn("returned") = {returned.source.provider}
                /\ returned.response.commitMessage = returned.source.text

\* C3 happens: a request is answered by a task while another task of its
\* race is in its backoff delay
C3_WinnerWhileOthersRun ==
    /\ IsMiss
    /\ RaceIn("returned") # {}
    /\ RaceIn("backoff") # {}

\* C4: in every success response the provider reported is the source of the
\* message: the provider whose call gave the text, 'local' exactly for the
\* local generator's text and 'cache' exactly for a text read from the cache.
C4_ProviderIsSource ==
    returned.status = 200 =>
        /\ returned.response.commitMessage = returned.source.text
        /\ providerOf(returned) = "cache" <=> returned.source.fn = "responseCache.get"
        /\ providerOf(returned) = "local"
              <=> returned.source.fn = "generateLocalPatternBasedCommit"
        /\ returned.source.provider # "" =>
              /\ providerOf(returned) = returned.source.provider
              /\ returned.source.fn = AdapterOf[returned.source.provider]

\* C4 happens: a provider's text is returned from a race of two tasks or more
C4_ProviderAnswered ==
    /\ returned.status = 200
    /\ returned.source.provider # ""
    /\ Cardinality(ProviderSet \ RaceIn("none")) >= 2

\* C5: a provider with three failure reports and no success report since is
\* not healthy, and no task is launched for a provider that is not healthy.
C5_TrippedProviderNotLaunched ==
    /\ \A p \in ProviderSet :
          failureRun[p] >= 3 => ~providerHealth[p].isHealthy
    /\ \A x \in sent : x.attempt = 1 => providerHealth[x.to].isHealthy

\* C5 happens: a request goes through the race with no task launched, after
\* three failure reports for freehf in a row
C5_RequestAfterTrip ==
    /\ IsMiss
    /\ RaceIn("none") = ProviderSet
    /\ failureRun["freehf"] >= 3
    /\ ~providerHealth["freehf"].isHealthy

\* C6: a request that starts less than CACHE_TTL after a request with the
\* identical diff stored its result returns the stored commitMessage, with
\* provider 'cache' and cached true.
C6_SecondRequestHitsCache ==
    (returned.status = 200 /\ returned.fresh)
        => /\ returned.response.commitMessage = returned.freshMessage
           /\ "cached" \in DOMAIN returned.response
           /\ returned.response.cached = TRUE
           /\ returned.response.provider = "cache"

\* C6 happens: a request is answered from an entry stored earlier
C6_HitWithinTTL ==
    /\ returned.status = 200
    /\ returned.fresh
    /\ returned.entryAge > 0
    /\ isHit(returned)

\* C7: a request answered from the cache found an entry younger than
\* CACHE_TTL, and a request that found an entry of age CACHE_TTL or more went
\* through the race and is answered as a miss.
C7_NoStaleHit ==
    returned.status = 200 =>
        /\ isHit(returned) => (returned.entryAge >= 0 /\ returned.entryAge < CACHE_TTL)
        /\ returned.entryAge >= CACHE_TTL =>
              /\ returned.source.fn # "responseCache.get"
              /\ "cached" \notin DOMAIN returned.response
              /\ returned.response.analysis.cacheHit = FALSE

\* C7 happens: a request that found an entry of age exactly CACHE_TTL is
\* answered as a miss
C7_StaleEntryMissed ==
    /\ IsMiss
    /\ returned.entryAge = CACHE_TTL

\* The sanitized text of each request body
SafeDiffTable == [b \in BodyIds |-> safeDiffOf(Bodies[b].diff)]
SafeKeyTable == [b \in BodyIds |-> generateCacheKey(SafeDiffTable[b])]

\* C8: the key a result is stored under is the fingerprint of the sanitized
\* diff, so that two diffs with the same sanitized text are stored under the
\* same key.
C8_KeyOfSanitizedDiff ==
    /\ \A b \in DOMAIN lastStore : lastStore[b].key = SafeKeyTable[b]
    /\ \A b1, b2 \in DOMAIN lastStore :
          SafeDiffTable[b1] = SafeDiffTable[b2] => lastStore[b1].key = lastStore[b2].key

\* The secret-shaped substrings of the request bodies
SecretsOf(b) ==
    IF Bodies[b].diff = DiffSecretA THEN {"sk-aaaaaaaaaaaaaaaaaaaaaaaa"}
    ELSE IF Bodies[b].diff = DiffSecretB THEN {"sk-bbbbbbbbbbbbbbbbbbbbbbbb"}
    ELSE {}

SafeAnalysisTable == [b \in BodyIds |-> analyzeDiff(SafeDiffTable[b])]

\* C9: the body of every request sent to a provider is built from the
\* sanitized diff and the analysis of the sanitized diff, and contains no
\* secret of the raw diff.
C9_OutboundIsSanitized ==
    \A x \in sent :
        /\ x.body.diff \in {SafeDiffTable[x.raw], substring0(SafeDiffTable[x.raw], 500)}
        /\ x.body.file \in {"", SafeAnalysisTable[x.raw].fileName}
        /\ x.body.changeType \in {"", SafeAnalysisTable[x.raw].changeType}
        /\ x.body.complexity \in {"", SafeAnalysisTable[x.raw].complexity}
        /\ \A k \in SecretsOf(x.raw) : ~includes(x.body.diff, k)

\* C9 happens: a request is sent to a provider for a diff that holds a secret
C9_SecretDiffSent ==
    \E x \in sent :
        /\ SecretsOf(x.raw) # {}
        /\ includes(x.body.diff, REDACTED)
        /\ x.body.file # ""

\* C10: a request whose diff is absent or empty is answered with status 400
\* and error 'Git diff is required', without a look into the cache; the step
\* that answers 400 writes no cache entry, launches no task, sends nothing
\* and changes no health state.
C10_MissingDiffRejected ==
    /\ [](\A b \in BodyIds :
            (returned.status # 0 /\ returned.body = b
                /\ (Bodies[b].kind = "absent"
                       \/ (Bodies[b].kind = "string" /\ Bodies[b].diff = "")))
              => /\ returned.status = 400
                 /\ returned.response = [error |-> "Git diff is required"]
                 /\ ~returned.looked)
    /\ [][returned'.status = 400
             => /\ UNCHANGED <<responseCache, providerHealth, providerCooldownUntil,
                               req, tasks, budget, lastStore, failureRun>>
                /\ sent' = {}]_vars

\* C10 happens: a request without diff is rejected while the cache holds an
\* entry and a task is running
C10_RejectedWhileBusy ==
    /\ returned.status = 400
    /\ DOMAIN responseCache # {}
    /\ Running > 0

\* C11: every request with a non-empty diff returns a response in the end,
\* given that every provider call settles and every timer fires: no run of
\* executeWithRetry makes more than MAX_RETRIES attempts, a request has at
\* most one task per provider, and from some point on no request is waiting
\* for its race.
C11_EveryRequestReturns ==
    /\ [](\A i \in DOMAIN tasks : \A p \in ProviderSet :
              tasks[i][p].attempt <= MAX_RETRIES)
    /\ [](Len(req) = Len(tasks) /\ \A i \in DOMAIN req : HasDiff(req[i].body))
    /\ <>[](\A i \in DOMAIN req : ~req[i].racing)

\* A request whose every task used all its attempts, the backoff timers
\* having moved the clock, is answered
C11_AnsweredAfterLastAttempt ==
    /\ IsMiss
    /\ settled.step = "giveUp"
    /\ settled.attempt = MAX_RETRIES
    /\ Cardinality(RaceIn("threw")) = 2
    /\ now = BackoffMs(1)
    /\ ticks = 0

C13_FirstCategoryInOrder ==
    probe.fn = "analyzeDiff" =>
        LET order == <<"feature", "bugFix", "security", "performance", "refactor",
                       "styling", "test", "docs", "config", "database", "api">>
            at    == {k \in 1..Len(order) : order[k] \in probe.input}
        IN  /\ at = {} => probe.out.changeType = "chore"
            /\ at # {} => probe.out.changeType = order[MinOf(at)]

\* A diff with a line that declares a constant and, before it, a line with an
\* SQL statement is a feature
C13_FeatureBeforeDatabase ==
    /\ probe.fn = "analyzeDiff"
    /\ probe.input = {"feature", "database"}
    /\ probe.diff = "+SELECT * FROM t\n+const x = () => {}\n"
    /\ probe.out.changeType = "feature"

LocalFn == "generateLocalPatternBasedCommit"

C15_FallbackNotCached ==
    /\ (IsMiss /\ returned.source.fn = LocalFn) =>
           LET key == tables.key[returned.body]
           IN  ~(/\ key \in DOMAIN responseCache
                 /\ responseCache[key].timestamp = now
                 /\ responseCache[key].response = returned.response.commitMessage)
    /\ isHit(returned) => lastStore[returned.body].fn # LocalFn

\* C16: for every provider, an adapter call that yields the empty text is a
\* failed attempt: executeWithRetry retries or gives up on it, no success is
\* reported for it, and it does not win the race.
C16_EmptyTextIsFailure ==
    (settled.provider # "" /\ settled.result.text = "") =>
        /\ settled.step \in {"backoff", "giveUp"}
        /\ \A k \in DOMAIN settled.reports : ~settled.reports[k].success
        /\ ~(IsMiss /\ returned.source.provider = settled.provider)

C18_RateLimitSetsCooldown ==
    /\ (settled.provider # "" /\ ~settled.result.ok
            /\ EndsWith(settled.result.error, ": 429"))
           => providerCooldownUntil[settled.provider] > now
    /\ \A x \in sent : x.attempt = 1 => now >= providerCooldownUntil[x.to]

\* C19: each provider execution that succeeds raises the provider's
\* successRate by exactly 0.01 (one hundredth, capped at 1.0), once, also
\* when it is the execution that won the race.
C19_SuccessRaisesRateOnce ==
    [][(settled'.provider # "" /\ settled'.step = "return") =>
           providerHealth'[settled'.provider].successRate =
               MinInt(100, providerHealth[settled'.provider].successRate + 1)
      ]_vars

\* C20: one run of executeWithRetry reports to the health tracker exactly
\* once, when it ends: a failed attempt that is not the last reports nothing
\* and leaves the health table as it is; the attempt that exhausts the run
\* reports one failure, which raises consecutiveFailures by exactly one, and
\* rethrows its error; the attempt that succeeds, the second after a failed
\* first included, reports one success and leaves consecutiveFailures at 0.
C20_OneReportPerRun ==
    /\ [](settled.provider # "" =>
            LET mine == SelectSeq(settled.reports, LAMBDA x : x.by = "executeWithRetry")
            IN  /\ settled.step = "backoff" =>
                       mine = <<>> /\ settled.attempt < MAX_RETRIES
                /\ settled.step = "giveUp" =>
                       /\ mine = <<[provider |-> settled.provider, success |-> FALSE,
                                    by |-> "executeWithRetry"]>>
                       /\ settled.attempt = MAX_RETRIES
                       /\ settled.rethrown = settled.result.error
                /\ settled.step = "return" =>
                       /\ mine = <<[provider |-> settled.provider, success |-> TRUE,
                                    by |-> "executeWithRetry"]>>
                       /\ providerHealth[settled.provider].consecutiveFailures = 0)
    /\ [][/\ settled'.step = "backoff" => providerHealth' = providerHealth
          /\ settled'.step = "giveUp" =>
                 providerHealth'[settled'.provider].consecutiveFailures =
                     providerHealth[settled'.provider].consecutiveFailures + 1
      ]_vars

\* The second attempt of a run succeeds after the first failed: the run has
\* reported one success and no failure
C20_SecondAttemptSucceeds ==
    /\ settled.step = "return"
    /\ settled.attempt = MAX_RETRIES
    /\ \A k \in DOMAIN settled.reports : settled.reports[k].success
    /\ providerHealth[settled.provider].consecutiveFailures = 0
    /\ failureRun[settled.provider] = 0

\* C21: one run of executeWithRetry calls its provider at least once and at
\* most MAX_RETRIES times: a launched run sends its first request at once,
\* every request sent is attempt 1 to MAX_RETRIES, a later attempt is sent
\* only for a run waiting after a failed attempt, and a call that succeeds
\* ends the run.
C21_AttemptsOfOneRun ==
    /\ [](\A x \in sent : x.attempt \in 1..MAX_RETRIES)
    /\ [](settled.provider # "" =>
            /\ settled.step = "return" <=> settled.result.ok
            /\ settled.step = "backoff" => ~settled.result.ok)
    /\ [][/\ Len(req') > Len(req) =>
                /\ sent' # {}
                /\ \A p \in ProviderSet :
                      LET t == tasks'[Len(tasks')][p]
                      IN  IF \E x \in sent' : x.to = p /\ x.attempt = 1
                          THEN t.state = "calling" /\ t.attempt = 1
                          ELSE t.state = "none"
          /\ \A x \in sent' :
                x.attempt > 1 =>
                    \E i \in DOMAIN tasks :
                        /\ req[i].body = x.raw
                        /\ tasks[i][x.to].state = "backoff"
                        /\ tasks[i][x.to].attempt = x.attempt - 1
                        /\ tasks'[i][x.to].state = "calling"
      ]_vars

\* The second call of a run is sent, its first having failed
C21_SecondCallSent ==
    /\ \E x \in sent : x.attempt = MAX_RETRIES
    /\ \E i \in DOMAIN tasks : \E p \in ProviderSet :
          tasks[i][p].state = "calling" /\ tasks[i][p].attempt = MAX_RETRIES
    /\ now > 0

\* C22: right after a success report for a provider its consecutiveFailures
\* is 0 and its isHealthy is true, whatever they were before, a tripped
\* circuit included.
C22_SuccessResets ==
    (settled.provider # ""
        /\ \E k \in DOMAIN settled.reports : settled.reports[k].success)
       => /\ providerHealth[settled.provider].consecutiveFailures = 0
          /\ providerHealth[settled.provider].isHealthy

\* A run launched before the circuit of its provider tripped succeeds after
\* it has
C22_SuccessOnTrippedCircuit ==
    /\ settled.step = "return"
    /\ ~settled.before.isHealthy
    /\ settled.before.consecutiveFailures >= CIRCUIT_BREAKER_THRESHOLD
    /\ providerHealth[settled.provider].isHealthy
    /\ providerHealth[settled.provider].consecutiveFailures = 0

\* The requests with a run of provider p that has not ended
InFlight(p) == {i \in DOMAIN tasks : tasks[i][p].state \in {"calling", "backoff"}}

C24_LoserStillReports ==
    [][(settled'.provider # "" /\ ~settled'.racing) =>
           LET p == settled'.provider
           IN  /\ settled'.step = "giveUp" =>
                      /\ providerHealth'[p].consecutiveFailures =
                             providerHealth[p].consecutiveFailures + 1
                      /\ providerHealth'[p].consecutiveFailures >= CIRCUIT_BREAKER_THRESHOLD
                             => ~providerHealth'[p].isHealthy
               /\ settled'.step = "return" =>
                      /\ providerHealth'[p].consecutiveFailures = 0
                      /\ providerHealth'[p].isHealthy
                      /\ providerHealth'[p].successRate =
                             MinInt(100, providerHealth[p].successRate + 1)
               /\ settled'.step = "backoff" => providerHealth' = providerHealth
      ]_vars

\* The loser of a race exhausts its attempts after the request was answered,
\* while no request awaits a race, and its provider's counter has grown
C24_LoserFailsAfterTheAnswer ==
    /\ settled.provider # ""
    /\ ~settled.racing
    /\ settled.step = "giveUp"
    /\ returned.status = 0
    /\ \A i \in DOMAIN req : ~req[i].racing
    /\ providerHealth[settled.provider].consecutiveFailures =
           settled.before.consecutiveFailures + 1

\* C25: when a request is answered, the runs of its race that have not ended
\* are left as they are; each goes on until it returns or gives up, so that
\* in the end no run is left; and what it comes to changes neither a
\* response nor the cache.
C25_LosersRunToTheEnd ==
    /\ [][\A i \in DOMAIN req :
              (/\ req[i].racing
               /\ Len(req') = Len(req)
               /\ ~req'[i].racing)
                  => \A p \in Pending(tasks[i]) \ {settled'.provider} :
                         tasks'[i][p] = tasks[i][p]
         ]_vars
    /\ [][(settled'.provider # "" /\ ~settled'.racing) =>
              /\ returned' = NotReturned
              /\ responseCache' = responseCache
              /\ lastStore' = lastStore
              /\ settled'.step \in {"return", "giveUp", "backoff"}
         ]_vars
    /\ <>[](tasks = <<>>)

\* A loser returns another text after the request was answered, and the
\* cache still holds the winner's
C25_LoserReturnsLate ==
    /\ settled.step = "return"
    /\ ~settled.racing
    /\ returned.status = 0
    /\ \E b \in DOMAIN lastStore :
          /\ lastStore[b].message # settled.result.text
          /\ lastStore[b].fn # LocalFn
          /\ tables.key[b] \in DOMAIN responseCache
          /\ responseCache[tables.key[b]].response = lastStore[b].message

\* C26: whatever the interleaving of the runs of one or several requests, no
\* health report is lost: consecutiveFailures of a provider is the number of
\* failure reports made for it since the last success report, and each
\* failure report lowers its successRate by 0.05 (five hundredths), not
\* below 0.
C26_NoReportLost ==
    /\ [](\A p \in ProviderSet :
             providerHealth[p].consecutiveFailures = failureRun[p])
    /\ [][\A p \in ProviderSet :
              failureRun'[p] = failureRun[p] + 1 =>
                  /\ providerHealth'[p].consecutiveFailures =
                         providerHealth[p].consecutiveFailures + 1
                  /\ providerHealth'[p].successRate =
                         MaxInt(0, providerHealth[p].successRate - 5)
         ]_vars

\* The runs of two requests that overlap both fail for freehf: two reports,
\* and the counter and the rate show both
C26_TwoOverlappingFailures ==
    /\ settled.provider = "freehf"
    /\ settled.step = "giveUp"
    /\ now = BackoffMs(1)
    /\ ticks = 1
    /\ failureRun.freehf = 2
    /\ providerHealth.freehf.consecutiveFailures = 2
    /\ providerHealth.freehf.successRate = InitialHealth.freehf.successRate - 10

\* C27: requests with the same diff that overlap are not coalesced: a
\* request is answered from the cache only out of an entry stored before it
\* came, a request that goes into the race gets runs of its own and leaves
\* those of the others alone, and every request that went through the race
\* stores its result, so that the one entry of its key is the one of the
\* request that stored last.
C27_OverlappingRequestsBothStore ==
    /\ [](isHit(returned) =>
             returned.entryAge >= 0 /\ returned.entryAge < CACHE_TTL)
    /\ [](IsMiss =>
             LET key == tables.key[returned.body]
             IN  /\ key \in DOMAIN responseCache
                 /\ responseCache[key].response = returned.response.commitMessage
                 /\ responseCache[key].timestamp = now)
    /\ [][Len(req') > Len(req) =>
              /\ returned' = NotReturned
              /\ \A i \in DOMAIN req : req'[i] = req[i] /\ tasks'[i] = tasks[i]
              /\ \A p \in Pending(tasks'[Len(tasks')]) :
                     Request(req'[Len(req')].body, p, 1) \in sent'
         ]_vars

\* A request that missed because nothing was stored when it came stores
\* over the entry a request with the same diff wrote meanwhile
C27_SecondStoreReplacesFirst ==
    /\ IsMiss
    /\ returned.entryAge = -1
    /\ returned.replaced.timestamp >= 0
    /\ returned.replaced.response # returned.response.commitMessage
    /\ responseCache[tables.key[returned.body]].response = returned.response.commitMessage
    /\ Cardinality({k \in DOMAIN responseCache : k = tables.key[returned.body]}) = 1

\* C28: a cache hit has no side effect: the step that answers from the
\* cache sends no provider request and launches no run, and leaves the
\* health table, the cooldowns and the cache as they are, the expired
\* entries and the timestamp of the entry it answers from included.
C28_HitChangesNothing ==
    [][isHit(returned') =>
           /\ sent' = {}
           /\ settled' = NotSettled
           /\ UNCHANGED <<responseCache, providerHealth, providerCooldownUntil, req, tasks,
                          budget, failureRun, now>>
      ]_vars

\* A request is answered from the cache while the cache holds an entry that
\* a sweep would delete, and an entry that is older than when it was stored
C28_HitBesideExpiredEntry ==
    /\ isHit(returned)
    /\ returned.entryAge > 0
    /\ \E k \in DOMAIN responseCache : now - responseCache[k].timestamp > CACHE_TTL

\* C29: a request answered from the cache gets a message that was generated
\* for its own diff text: a request with that very body stored the entry it
\* is answered from.
C29_HitIsForTheSameDiff ==
    isHit(returned) =>
        /\ returned.body \in DOMAIN lastStore
        /\ lastStore[returned.body].key = tables.key[returned.body]
        /\ lastStore[returned.body].message = returned.response.commitMessage

\* C30: in every reachable state and for every provider, isHealthy is true
\* exactly when consecutiveFailures is below CIRCUIT_BREAKER_THRESHOLD, so the
\* test of isHealthy alone (lines 142-162) decides as the test of both does
\* (line 133).
C30_HealthyIffBelowThreshold ==
    \A p \in DOMAIN providerHealth :
        LET health == providerHealth[p]
        IN  /\ health.isHealthy <=>
                   health.consecutiveFailures < CIRCUIT_BREAKER_THRESHOLD
            /\ health.isHealthy <=>
                   (/\ health.isHealthy
                    /\ health.consecutiveFailures < CIRCUIT_BREAKER_THRESHOLD)

\* a failure reported by a request launched before the trip takes the counter
\* of a tripped provider past the threshold
C30_CounterPastThreshold ==
    \E p \in ProviderSet :
        /\ settled.provider = p
        /\ settled.before.consecutiveFailures >= CIRCUIT_BREAKER_THRESHOLD
        /\ ~settled.before.isHealthy
        /\ providerHealth[p].consecutiveFailures > CIRCUIT_BREAKER_THRESHOLD
        /\ ~providerHealth[p].isHealthy

\* C31: the sweep runs with every cache write and at no other time: in the
\* step in which a request stores its result the cache is left with no entry
\* older than CACHE_TTL, and no step but such a one changes the cache, so
\* entries that expire between two writes stay until the next write.
C31_SweepWithEveryWrite ==
    [][/\ (isSuccess(returned') /\ ~isHit(returned')) =>
              \A k \in DOMAIN responseCache' :
                  now' - responseCache'[k].timestamp <= CACHE_TTL
       /\ responseCache' # responseCache =>
              /\ isSuccess(returned') /\ ~isHit(returned')
              /\ tables.key[returned'.body] \in DOMAIN responseCache'
      ]_vars

\* A request stores its result when the entry stored for another diff is
\* older than CACHE_TTL: that entry is gone from the cache
C31_StoreSweepsExpiredEntry ==
    /\ isSuccess(returned)
    /\ ~isHit(returned)
    /\ \E b \in DOMAIN lastStore :
           /\ b # returned.body
           /\ now - lastStore[b].at > CACHE_TTL
           /\ lastStore[b].key \notin DOMAIN responseCache

\* C32: in executeWithRetry a failed attempt that is not the last is followed
\* by a wait of 2^attempt seconds, with no report and nothing thrown, and the
\* next attempt is sent only once that wait is over; the first attempt is
\* sent in the step that launches the run; the last failed attempt reports
\* the failure and rethrows the error in the step it fails, with no wait.
C32_BackoffBetweenAttempts ==
    [][/\ settled'.step = "backoff" =>
              /\ ~settled'.result.ok
              /\ settled'.attempt < MAX_RETRIES
              /\ settled'.reports = <<>>
              /\ settled'.rethrown = ""
              /\ sent' = {}
              /\ now' = now
              /\ \E i \in DOMAIN tasks :
                     /\ tasks[i][settled'.provider].state = "calling"
                     /\ tasks[i][settled'.provider].attempt = settled'.attempt
                     /\ tasks'[i][settled'.provider].state = "backoff"
                     /\ tasks'[i][settled'.provider].attempt = settled'.attempt
                     /\ tasks'[i][settled'.provider].wakeAt
                            = now + (2 ^ settled'.attempt) * 1000
       /\ \A x \in sent' :
              IF x.attempt = 1
              THEN /\ Len(req') = Len(req) + 1
                   /\ req'[Len(req')].body = x.raw
                   /\ now' = now
              ELSE \E i \in DOMAIN tasks :
                       /\ req[i].body = x.raw
                       /\ tasks[i][x.to].state = "backoff"
                       /\ tasks[i][x.to].attempt = x.attempt - 1
                       /\ now >= tasks[i][x.to].wakeAt
                       /\ tasks'[i][x.to].state = "calling"
                       /\ tasks'[i][x.to].attempt = x.attempt
       /\ settled'.step = "giveUp" =>
              /\ ~settled'.result.ok
              /\ settled'.attempt = MAX_RETRIES
              /\ settled'.rethrown = settled'.result.error
              /\ settled'.reports = <<[provider |-> settled'.provider, success |-> FALSE,
                                       by |-> "executeWithRetry"]>>
              /\ now' = now
              /\ \A i \in DOMAIN tasks' :
                     ~(/\ tasks'[i][settled'.provider].state = "backoff"
                       /\ tasks'[i][settled'.provider].attempt = MAX_RETRIES)
      ]_vars

\* The last attempt of a run fails when its wait is just over: the run gives
\* up at once
C32_GivesUpAfterTheWait ==
    /\ settled.step = "giveUp"
    /\ settled.attempt = MAX_RETRIES
    /\ now = (2 ^ (MAX_RETRIES - 1)) * 1000
    /\ settled.rethrown # ""

\* The outcomes os of the fetches of one call, with an answer of status 500
\* in the place of every timer that won
RejectedForTimeout(os) ==
    [k \in DOMAIN os |->
        IF os[k].kind = "timeout"
        THEN [kind |-> "rejected", status |-> "500", text |-> ""]
        ELSE os[k]]

\* C33: a call whose timer wins the race of fetchWithTimeout fails like any
\* other: the adapter comes to the same success or failure, with the same
\* text, as it would had the fetch been rejected, and executeWithRetry
\* decides on the failed attempt by its number alone: it waits and retries
\* before MAX_RETRIES with no report, and at MAX_RETRIES it reports one
\* failure, which raises consecutiveFailures by one, and rethrows.
C33_TimeoutIsAnyFailure ==
    (settled.provider # "" /\ settled.result.error = TimeoutError) =>
        /\ ~settled.result.ok
        /\ settled.step = IF settled.attempt = MAX_RETRIES THEN "giveUp" ELSE "backoff"
        /\ settled.reports =
               IF settled.attempt = MAX_RETRIES
               THEN <<[provider |-> settled.provider, success |-> FALSE,
                       by |-> "executeWithRetry"]>>
               ELSE <<>>
        /\ providerHealth[settled.provider].consecutiveFailures =
               settled.before.consecutiveFailures
                   + (IF settled.attempt = MAX_RETRIES THEN 1 ELSE 0)
        /\ LET fn == AdapterOf[settled.provider]
           IN  \A os \in [1..FetchCount(fn) -> FetchOutcomes] :
                   LET timed    == callAdapter(fn, os)
                       rejected == callAdapter(fn, RejectedForTimeout(os))
                   IN  /\ timed.ok = rejected.ok
                       /\ timed.text = rejected.text
                       /\ retryStep(settled.attempt, timed)
                              = retryStep(settled.attempt, rejected)
                       /\ retryReports(settled.provider, retryStep(settled.attempt, timed))
                              = retryReports(settled.provider,
                                             retryStep(settled.attempt, rejected))

\* The first attempt of a run ends on the timer of its last fetch, after
\* other fetches of the call, and the run waits to retry
C33_TimedOutCallRetries ==
    /\ settled.provider = "huggingface"
    /\ settled.result = Thrown(TimeoutError)
    /\ settled.attempt = 1
    /\ settled.step = "backoff"
    /\ settled.racing

\* C34: the priority field has no effect on the outcome.  Whatever priorities
\* the providers are given, with the same health flags, credentials and
\* provider outcomes a request launches the same set of tasks, logs the same
\* count of healthy providers, and is answered with the text of the task
\* that returns first, or with the local engine's text when none is launched
\* or all have failed.
C34_PriorityChangesNothing ==
    [][/\ (Len(req') > Len(req) \/ (isSuccess(returned') /\ ~isHit(returned'))) =>
              \A pr \in PriorityChoices :
                  LET other    == withPriority(providerHealth, pr)
                      launches == {p \in ProviderSet :
                                      shouldLaunch(p, other, providerCooldownUntil, env, now)}
                  IN  /\ \A p \in ProviderSet :
                             shouldLaunch(p, providerHealth, providerCooldownUntil, env, now)
                                 <=> p \in launches
                      /\ Len(healthyProviders(providerHealth, providerCooldownUntil, now))
                             = Len(healthyProviders(other, providerCooldownUntil, now))
                      /\ Len(req') > Len(req) => {x.to : x \in sent'} = launches
                      /\ (isSuccess(returned') /\ settled'.provider = "") => launches = {}
       /\ (isSuccess(returned') /\ ~isHit(returned')) =>
              IF settled'.provider # "" /\ settled'.step = "return"
              THEN /\ returned'.response.analysis.provider = settled'.provider
                   /\ returned'.response.commitMessage = settled'.result.text
              ELSE /\ returned'.response.analysis.provider = "local"
                   /\ returned'.response.commitMessage = tables.local[returned'.body]
       /\ \A p \in DOMAIN providerHealth :
              providerHealth'[p].priority = providerHealth[p].priority
      ]_vars

\* With the priorities reversed, freehf now ahead of aiml, a request launches
\* both and aiml answers it
C34_LesserPriorityWins ==
    /\ providerHealth.freehf.priority < providerHealth.aiml.priority
    /\ isSuccess(returned)
    /\ ~isHit(returned)
    /\ returned.response.analysis.provider = "aiml"
    /\ returned.race.freehf \in {"calling", "backoff"}

\* C35: in every reachable state and for every provider, successRate lies in
\* [0, 1] (0 to 100 hundredths) and consecutiveFailures is an integer that is
\* not negative; a failure report takes 0.05 from successRate, or leaves it
\* at 0 when less than that remains, and adds one to consecutiveFailures; a
\* success report adds 0.01 to successRate, or leaves it at 1.
C35_RateAndCounterInRange ==
    /\ \A p \in DOMAIN providerHealth :
           /\ providerHealth[p].successRate \in 0..100
           /\ providerHealth[p].consecutiveFailures \in Nat
    /\ (settled.provider # "" /\ Len(settled.reports) = 1) =>
           LET before == settled.before
               health == providerHealth[settled.provider]
           IN  IF settled.reports[1].success
               THEN /\ health.successRate =
                           IF before.successRate < 100 THEN before.successRate + 1 ELSE 100
                    /\ health.successRate >= before.successRate
               ELSE /\ health.successRate =
                           IF before.successRate >= 5 THEN before.successRate - 5 ELSE 0
                    /\ health.successRate <= before.successRate
                    /\ health.consecutiveFailures = before.consecutiveFailures + 1

\* successRate of freehf has come down to 0 and stayed there through one
\* more failure, and a success is reported for aiml, whose successRate has
\* come up to 1: it stays at 1
C35_RateAtBothBounds ==
    /\ providerHealth.freehf.successRate = 0
    /\ providerHealth.freehf.consecutiveFailures = 15
    /\ settled.provider = "aiml"
    /\ Len(settled.reports) = 1
    /\ settled.reports[1].success
    /\ settled.before.successRate = 100
    /\ providerHealth.aiml.successRate = 100

\* The bodies POST cannot work on: unreadable, or with a diff that is not a
\* string
FaultIds == {b \in BodyIds : Bodies[b].kind \in {"unreadable", "number"}}

\* C36: a fault inside POST is answered and leaves the state alone: a request
\* whose body cannot be read, or whose diff is not a string, is answered in
\* the step it arrives, with status 500 and error 'Failed to generate commit
\* message'; the step that answers 500 writes no cache entry, launches no
\* task, sends nothing and changes no health state.
C36_FaultAnswered500 ==
    /\ [](\A b \in FaultIds : ENABLED POST(b))
    /\ [][\A b \in FaultIds :
              POST(b) => /\ returned'.status = 500
                         /\ returned'.body = b]_vars
    /\ [](returned.status # 0 /\ returned.body \in FaultIds =>
              /\ returned.status = 500
              /\ returned.response = [error |-> "Failed to generate commit message"])
    /\ [][returned'.status = 500
             => /\ UNCHANGED <<responseCache, providerHealth, providerCooldownUntil,
                               req, tasks, budget, lastStore, failureRun>>
                /\ sent' = {}]_vars

\* A request whose diff is a number is answered 500 after its look into the
\* cache, while the cache holds an entry and a task is running
C36_NumberDiffWhileBusy ==
    /\ returned.status = 500
    /\ returned.body \in FaultIds
    /\ Bodies[returned.body].kind = "number"
    /\ returned.looked
    /\ DOMAIN responseCache # {}
    /\ Running > 0

\* C37: analyzeDiff counts the lines that start with '+' and with '-', takes
\* their sum as totalChanges, and sets complexity to 'high' when totalChanges
\* is above 50 or the diff has more than one file, else to 'medium' when
\* totalChanges is above 20, else to 'low': 50 changes in one file are
\* 'medium' and 20 are 'low'.
C37_ComplexityThresholds ==
    probe.fn = "analyzeDiff" =>
        LET n   == probe.input.added + probe.input.removed
            out == probe.out
        IN  /\ out.addedLines = probe.input.added
            /\ out.removedLines = probe.input.removed
            /\ out.totalChanges = n
            /\ out.fileCount = probe.input.files
            /\ out.complexity =
                   IF n > 50 \/ probe.input.files > 1 THEN "high"
                   ELSE IF n > 20 THEN "medium"
                   ELSE "low"
            /\ (n = 50 /\ probe.input.files <= 1) => out.complexity = "medium"
            /\ (n = 20 /\ probe.input.files <= 1) => out.complexity = "low"

\* A diff of one file with exactly 50 changed lines is measured 'medium'
C37_FiftyChangesInOneFile ==
    /\ probe.fn = "analyzeDiff"
    /\ probe.input.files = 1
    /\ probe.out.totalChanges = 50
    /\ probe.out.complexity = "medium"

\* The word each template opens its subject line with (lines 277-395)
SubjectType ==
    [feature |-> "feat", bugFix |-> "fix", security |-> "security", performance |-> "perf",
     refactor |-> "refactor", styling |-> "style", test |-> "test", docs |-> "docs",
     config |-> "chore", database |-> "db", api |-> "api", chore |-> "chore"]

\* The positions of the line ends of text
LineEnds(text) == {i \in 1..Len(text) : CharAt(text, i) = "\n"}

C39_RedactedThenTruncated ==
    probe.fn = "safeDiffOf" =>
        LET redacted == probe.out.redacted
            safe     == probe.out.safe
        IN  /\ Len(safe) <= 12000
            /\ Len(safe) = IF Len(redacted) <= 12000 THEN Len(redacted) ELSE 12000
            /\ safe = SubSeq(redacted, 1, Len(safe))
            /\ ~includes(redacted, "Z9")
            /\ ~includes(safe, "Z9")

\* A secret that lies across character 12000 of a longer diff: the text
\* handed on is cut inside the mark that replaced it
C39_SecretAcrossTheCut ==
    /\ probe.fn = "safeDiffOf"
    /\ probe.input[1] < 12000
    /\ probe.input[1] + Len(probe.input[2]) > 12000
    /\ Len(probe.diff) > 12000
    /\ Len(probe.out.safe) = 12000
    /\ HasAt(probe.out.safe, probe.input[1] + 1, "[REDA")
    /\ ~HasAt(probe.out.safe, probe.input[1] + 1, "[REDACTED]")

====
